---- MODULE Spec2Model ----
(***************************************************************************)
(* Copy-on-write draft engine of craft: draft states and the proxy traps   *)
(* (proxy.ts), the map/set adapters (map-set.ts), finalize (utils.ts),     *)
(* createDraft/finishDraft (manual.ts) and the patch differ/applier        *)
(* (patches.ts).  Objects live in a heap and are compared by identity.     *)
(***************************************************************************)
EXTENDS Integers, Sequences, FiniteSets, TLC

\* ------------------------------------------------------------------ bounds
MaxOps == 3          \* number of caller operations in one session
MaxMut == 2          \* number of them that are not reads or finishDraft
MaxFinish == 2       \* number of finishDraft calls in one session
MaxPatches == 2      \* length of a patch list written by the caller

\* ------------------------------------------------------------------ values
\* A JavaScript value: a tagged pair.  "ref" is a plain heap object,
\* "draft" is a Proxy whose handler closes over draft state number v.
Num(n) == [t |-> "num", v |-> n]
Undef == [t |-> "undef", v |-> 0]
Null == [t |-> "null", v |-> 0]
Absent == [t |-> "absent", v |-> 0]     \* a missing property / array hole
Ref(o) == [t |-> "ref", v |-> o]
Draft(s) == [t |-> "draft", v |-> s]
nothing == [t |-> "nothing", v |-> 0]
True == [t |-> "true", v |-> 0]
False == [t |-> "false", v |-> 0]
Bool(b) == IF b THEN True ELSE False

Keys == {"a", "b"}
KeySeq == <<"a", "b">>
LEN == -1            \* the "length" property of an array

NoKeys == [k \in Keys |-> Absent]
Rec(f) == [kind |-> "rec", rec |-> f, arr |-> <<>>, frozen |-> FALSE]
Arr(q) == [kind |-> "arr", rec |-> NoKeys, arr |-> q, frozen |-> FALSE]
MapObj(f) == [kind |-> "map", rec |-> f, arr |-> <<>>, frozen |-> FALSE]
SetObj(q) == [kind |-> "set", rec |-> NoKeys, arr |-> q, frozen |-> FALSE]

VARIABLES heap, states, held, ret, threw, res, nops, heap0, log, last, fins, call

\* the patch round trip: the two values compared, the two patch lists and
\* what replaying each list gave
VARIABLES pbase, pnext, patches, inversePatches, applied, reverted

\* config.ts: the module-level configuration
VARIABLE config

patchVars == <<pbase, pnext, patches, inversePatches, applied, reverted>>
vars == <<heap, states, held, ret, threw, res, nops, heap0, log, last, fins, call, patchVars,
          config>>

\* ------------------------------------------------------------ plain objects
IsObjVal(v) == v.t = "ref" \/ v.t = "draft"

\* source[prop] on a plain object
ObjGet(o, p) ==
  IF o.kind = "arr"
  THEN IF p = LEN THEN Num(Len(o.arr))
       ELSE IF p < Len(o.arr) /\ o.arr[p + 1] # Absent THEN o.arr[p + 1] ELSE Undef
  ELSE IF o.rec[p] # Absent THEN o.rec[p] ELSE Undef

\* prop in source
ObjHas(o, p) ==
  IF o.kind = "arr"
  THEN p = LEN \/ (p < Len(o.arr) /\ o.arr[p + 1] # Absent)
  ELSE o.rec[p] # Absent

\* source[prop] = v   (array index writes beyond the end leave holes,
\* a write to length truncates or extends)
ObjSet(o, p, v) ==
  IF o.kind = "arr"
  THEN IF p = LEN
       THEN [o EXCEPT !.arr = [i \in 1..v.v |-> IF i <= Len(o.arr) THEN o.arr[i] ELSE Absent]]
       ELSE [o EXCEPT !.arr = [i \in 1..(IF p + 1 > Len(o.arr) THEN p + 1 ELSE Len(o.arr)) |->
                                 IF i = p + 1 THEN v
                                 ELSE IF i <= Len(o.arr) THEN o.arr[i] ELSE Absent]]
  ELSE [o EXCEPT !.rec[p] = v]

\* delete source[prop]
ObjDelete(o, p) ==
  IF o.kind = "arr"
  THEN IF p # LEN /\ p < Len(o.arr) THEN [o EXCEPT !.arr[p + 1] = Absent] ELSE o
  ELSE [o EXCEPT !.rec[p] = Absent]

\* ------------------------------------------------------------------ world
\* The mutable store an operation works on: heap, draft states, the value
\* it returns and whether it threw.
World(h, st) == [heap |-> h, states |-> st, ret |-> Undef, err |-> FALSE]

Alloc(W, o) == [W EXCEPT !.heap = Append(W.heap, o)]
NewId(W) == Len(W.heap) + 1

shallowCopy(o) == [o EXCEPT !.frozen = FALSE]

latest(W, s) == IF W.states[s].copy # 0 THEN W.states[s].copy ELSE W.states[s].base

NewState(kind, base, parent) ==
  [kind |-> kind, base |-> base, copy |-> 0, modified |-> FALSE, parent |-> parent,
   finalized |-> FALSE, drafts |-> {}]

\* variant of markChanged that does not walk up to the parent
markChanged_local(W, s) ==
  IF W.states[s].modified THEN W
  ELSE LET W1 == [W EXCEPT !.states[s].modified = TRUE]
       IN IF W1.states[s].copy = 0
          THEN [Alloc(W1, shallowCopy(W1.heap[W1.states[s].base]))
                  EXCEPT !.states[s].copy = NewId(W1)]
          ELSE W1

RECURSIVE markChanged(_, _)
markChanged(W, s) ==
  IF W.states[s].modified THEN W
  ELSE LET W1 == [W EXCEPT !.states[s].modified = TRUE]
           W2 == IF W1.states[s].copy = 0
                 THEN [Alloc(W1, shallowCopy(W1.heap[W1.states[s].base]))
                         EXCEPT !.states[s].copy = NewId(W1)]
                 ELSE W1
       IN IF W2.states[s].parent # 0 THEN markChanged(W2, W2.states[s].parent) ELSE W2

\* value?.[DRAFT_STATE] !== undefined : a map/set proxy answers DRAFT_STATE
\* with its parent (null for a root), which is never undefined
isDraft(v) == v.t = "draft"

\* draft[DRAFT_STATE] : 0 stands for a falsy answer (undefined or null)
getState(W, v) ==
  IF v.t # "draft" THEN 0
  ELSE IF W.states[v.v].kind = "obj" THEN v.v ELSE W.states[v.v].parent

getMapState(W, v) == IF v.t = "draft" /\ W.states[v.v].kind = "map" THEN v.v ELSE 0
getSetState(W, v) == IF v.t = "draft" /\ W.states[v.v].kind = "set" THEN v.v ELSE 0

isDraftable(v) == v.t = "ref"

StateKind(o) == IF o.kind = "map" THEN "map" ELSE IF o.kind = "set" THEN "set" ELSE "obj"

\* createProxy(base, parent) for a draftable base: a new state and its proxy
createProxy(W, o, parent) ==
  [W EXCEPT !.states = Append(W.states, NewState(StateKind(W.heap[o]), o, parent)),
            !.ret = Draft(Len(W.states) + 1)]

CachedChild(st, p) ==
  IF \E e \in st.drafts : e[1] = p THEN (CHOOSE e \in st.drafts : e[1] = p)[2] ELSE 0

\* variant of the cache invalidation that keeps the entry
DropChild_keep(W, s, p) == W

DropChild(W, s, p) ==
  [W EXCEPT !.states[s].drafts = {e \in W.states[s].drafts : e[1] # p}]

\* ------------------------------------------------------------- proxy traps
\* state.copy[prop] = v in strict mode: a frozen copy makes the write throw
CopyWrite(W, s, p, v) ==
  LET cp == W.states[s].copy
  IN IF W.heap[cp].frozen THEN [W EXCEPT !.err = TRUE]
     ELSE [W EXCEPT !.heap[cp] = ObjSet(@, p, v)]

CopyDelete(W, s, p) ==
  LET cp == W.states[s].copy
  IN IF W.heap[cp].frozen /\ ObjHas(W.heap[cp], p) THEN [W EXCEPT !.err = TRUE]
     ELSE [W EXCEPT !.heap[cp] = ObjDelete(@, p)]

\* variant of handler.get that wraps every draftable value it finds
GetTrap_wrapAll(W, s, p) ==
  IF W.err THEN W ELSE
  LET st == W.states[s]
      value == ObjGet(W.heap[latest(W, s)], p)
  IN IF ~IsObjVal(value) THEN [W EXCEPT !.ret = value]
     ELSE IF isDraft(value) THEN [W EXCEPT !.ret = value]
     ELSE IF TRUE
          THEN IF CachedChild(st, p) # 0 THEN [W EXCEPT !.ret = Draft(CachedChild(st, p))]
               ELSE LET W1 == createProxy(W, value.v, s)
                        child == W1.ret
                        W2 == [W1 EXCEPT !.states[s].drafts = @ \cup {<<p, child.v>>}]
                        W3 == IF W2.states[s].copy = 0
                              THEN [Alloc(W2, shallowCopy(W2.heap[st.base]))
                                      EXCEPT !.states[s].copy = NewId(W2)]
                              ELSE W2
                        W4 == CopyWrite(W3, s, p, child)
                    IN IF W4.err THEN W4 ELSE [W4 EXCEPT !.ret = child]
          ELSE [W EXCEPT !.ret = value]

\* handler.get for a data property (array methods are separate operations)
GetTrap(W, s, p) ==
  IF W.err THEN W ELSE
  LET st == W.states[s]
      value == ObjGet(W.heap[latest(W, s)], p)
  IN IF ~IsObjVal(value) THEN [W EXCEPT !.ret = value]
     ELSE IF isDraft(value) THEN [W EXCEPT !.ret = value]
     ELSE IF value = ObjGet(W.heap[st.base], p)
          THEN IF CachedChild(st, p) # 0 THEN [W EXCEPT !.ret = Draft(CachedChild(st, p))]
               ELSE LET W1 == createProxy(W, value.v, s)
                        child == W1.ret
                        W2 == [W1 EXCEPT !.states[s].drafts = @ \cup {<<p, child.v>>}]
                        W3 == IF W2.states[s].copy = 0
                              THEN [Alloc(W2, shallowCopy(W2.heap[st.base]))
                                      EXCEPT !.states[s].copy = NewId(W2)]
                              ELSE W2
                        W4 == CopyWrite(W3, s, p, child)
                    IN IF W4.err THEN W4 ELSE [W4 EXCEPT !.ret = child]
          ELSE [W EXCEPT !.ret = value]

\* the value a write stores for an incoming draft: latest(getState(value))
Unwrap(W, v) ==
  IF getState(W, v) # 0 THEN Ref(latest(W, getState(W, v))) ELSE v

\* handler.set
SetTrap(W, s, p, v) ==
  IF W.err THEN W ELSE
  LET st == W.states[s]
      source == W.heap[latest(W, s)]
      current == ObjGet(source, p)
  IN IF v = nothing
     THEN IF ~ObjHas(source, p) THEN W
          ELSE LET W1 == markChanged(W, s)
                   W2 == IF source.kind = "arr" THEN CopyWrite(W1, s, p, nothing)
                         ELSE CopyDelete(W1, s, p)
               IN IF W2.err THEN W2 ELSE DropChild(W2, s, p)
     ELSE IF v.t = "undef" \/ v.t = "null" THEN [W EXCEPT !.err = TRUE]
     ELSE LET actualValue == Unwrap(W, v)
          IN IF current = actualValue THEN W
             ELSE LET W1 == markChanged(W, s)
                      W2 == CopyWrite(W1, s, p, actualValue)
                  IN IF W2.err THEN W2 ELSE DropChild(W2, s, p)

\* handler.deleteProperty
DeleteTrap(W, s, p) ==
  IF W.err THEN W ELSE
  LET W1 == markChanged(W, s)
      W2 == CopyDelete(W1, s, p)
  IN IF W2.err THEN W2 ELSE DropChild(W2, s, p)

\* handler.has
HasTrap(W, s, p) == ObjHas(W.heap[latest(W, s)], p)

\* handler.ownKeys: the own keys of copy ?? base (an array's include length)
OwnKeysTrap(W, s) ==
  LET o == W.heap[latest(W, s)]
  IN IF o.kind = "arr" THEN {p \in 0..(Len(o.arr) - 1) : ObjHas(o, p)} \cup {LEN}
     ELSE {p \in Keys : ObjHas(o, p)}

\* ------------------------------------------------------------ map-set.ts
\* variant of prepareCopy that uses the base container as the copy
prepareCopy_alias(W, s) ==
  IF W.states[s].copy # 0 THEN W
  ELSE LET W1 == [W EXCEPT !.states[s].modified = TRUE, !.states[s].copy = W.states[s].base]
       IN IF W1.states[s].parent # 0 THEN markChanged(W1, W1.states[s].parent) ELSE W1

\* variant of prepareCopy that does not mark the parent
prepareCopy_noParent(W, s) ==
  IF W.states[s].copy # 0 THEN W
  ELSE [Alloc(W, shallowCopy(W.heap[W.states[s].base]))
          EXCEPT !.states[s].modified = TRUE, !.states[s].copy = NewId(W)]

\* prepareCopy / prepareCopySet
prepareCopy(W, s) ==
  IF W.states[s].copy # 0 THEN W
  ELSE LET W1 == [Alloc(W, shallowCopy(W.heap[W.states[s].base]))
                    EXCEPT !.states[s].modified = TRUE, !.states[s].copy = NewId(W)]
       IN IF W1.states[s].parent # 0 THEN markChanged(W1, W1.states[s].parent) ELSE W1

EnsureCopy(W, s) == IF ~W.states[s].modified THEN prepareCopy(W, s) ELSE W

SeqRemove(q, v) == SelectSeq(q, LAMBDA x : x # v)
SeqHas(q, v) == \E i \in 1..Len(q) : q[i] = v

\* the wrapped set / delete / clear of a map proxy
mapSet(W, s, k, v) ==
  LET W1 == EnsureCopy(W, s)
  IN [W1 EXCEPT !.heap[W1.states[s].copy].rec[k] = v, !.ret = Ref(W1.states[s].copy)]

mapDelete(W, s, k) ==
  LET W1 == EnsureCopy(W, s)
  IN [W1 EXCEPT !.heap[W1.states[s].copy].rec[k] = Absent,
                !.ret = Bool(ObjHas(W1.heap[W1.states[s].copy], k))]

mapClear(W, s) ==
  LET W1 == EnsureCopy(W, s)
  IN [W1 EXCEPT !.heap[W1.states[s].copy].rec = NoKeys]

\* variant of mapGet that reads from a private copy it allocates
mapGet_copying(W, s, k) ==
  LET W1 == IF W.states[s].copy # 0 THEN W
            ELSE [Alloc(W, shallowCopy(W.heap[W.states[s].base]))
                    EXCEPT !.states[s].copy = NewId(W)]
  IN [W1 EXCEPT !.ret = ObjGet(W1.heap[latest(W1, s)], k)]

\* the wrapped get of a map proxy: source.get(key), handed out as stored
mapGet(W, s, k) == [W EXCEPT !.ret = ObjGet(W.heap[latest(W, s)], k)]

\* the wrapped add / delete / clear of a set proxy
setAdd(W, s, v) ==
  LET W1 == EnsureCopy(W, s)
      cp == W1.states[s].copy
  IN [W1 EXCEPT !.heap[cp].arr = IF SeqHas(@, v) THEN @ ELSE Append(@, v), !.ret = Ref(cp)]

setDelete(W, s, v) ==
  LET W1 == EnsureCopy(W, s)
  IN [W1 EXCEPT !.heap[W1.states[s].copy].arr = SeqRemove(@, v),
                !.ret = Bool(SeqHas(W1.heap[W1.states[s].copy].arr, v))]

setClear(W, s) ==
  LET W1 == EnsureCopy(W, s)
  IN [W1 EXCEPT !.heap[W1.states[s].copy].arr = <<>>]

\* case "has" of createMapProxy: source.has(key) on copy ?? base
mapHas(W, s, k) == [W EXCEPT !.ret = Bool(ObjHas(W.heap[latest(W, s)], k))]

\* case "has" of createSetProxy
setHas(W, s, v) == [W EXCEPT !.ret = Bool(SeqHas(W.heap[latest(W, s)].arr, v))]

\* the number of entries of a Map / members of a Set
SizeOf(o) == IF o.kind = "map" THEN Cardinality({k \in Keys : o.rec[k] # Absent}) ELSE Len(o.arr)

\* proxy.size: the get trap answers a property that is no function with
\* target[prop], and the target of the Proxy is base
viewSize(W, s) == [W EXCEPT !.ret = Num(SizeOf(W.heap[W.states[s].base]))]

\* finalizeMap / finalizeSet
finalizeMap(W, s) ==
  [W EXCEPT !.states[s].finalized = TRUE, !.ret = Ref(latest(W, s))]

\* ------------------------------------------------------------- finalize
\* freeze(obj, false)
freeze(W, o) == [W EXCEPT !.heap[o].frozen = TRUE]

\* variant of hasNothing whose scan starts at the second slot
hasNothing_skipFirst(o) == \E i \in 2..Len(o.arr) : o.arr[i] = nothing

hasNothing(o) == \E i \in 1..Len(o.arr) : o.arr[i] = nothing

hasDrafts(o) == \E i \in 1..Len(o.arr) : isDraft(o.arr[i])

RECURSIVE finalize(_, _, _)
RECURSIVE FinalizeSlot(_, _, _)
RECURSIVE FilterLoop(_, _, _, _, _)
RECURSIVE InPlaceLoop(_, _, _, _)
RECURSIVE RecordLoop(_, _, _, _)

\* variant of the slot body that keeps every value as it finds it
FinalizeSlot_keep(W, value, fz) == [W EXCEPT !.ret = value]

\* the body shared by the three loops of finalize for one slot value:
\* getMapState(value) throws on undefined and null, map/set proxies go to finalizeMap /
\* finalizeSet, a draft to finalize, anything else is kept
FinalizeSlot(W, value, fz) ==
  IF value.t = "undef" \/ value.t = "null" \/ value.t = "absent" THEN [W EXCEPT !.err = TRUE]
  ELSE IF getMapState(W, value) # 0 THEN finalizeMap(W, value.v)
  ELSE IF getSetState(W, value) # 0 THEN finalizeMap(W, value.v)
  ELSE IF isDraft(value) THEN finalize(W, value.v, fz)
  ELSE [W EXCEPT !.ret = value]

\* arrays holding nothing: build filtered, skipping the marked slots
FilterLoop(W, cp, i, filtered, fz) ==
  IF W.err THEN W
  ELSE IF i > Len(W.heap[cp].arr)
  THEN LET W1 == Alloc(W, Arr(filtered))
           W2 == IF fz THEN freeze(W1, NewId(W)) ELSE W1
       IN [W2 EXCEPT !.ret = Ref(NewId(W))]
  ELSE LET value == W.heap[cp].arr[i]
       IN IF value = nothing THEN FilterLoop(W, cp, i + 1, filtered, fz)
          ELSE LET W1 == FinalizeSlot(W, value, fz)
               IN FilterLoop(W1, cp, i + 1, Append(filtered, W1.ret), fz)

\* arrays holding drafts only: finalize in place
InPlaceLoop(W, cp, i, fz) ==
  IF W.err THEN W
  ELSE IF i > Len(W.heap[cp].arr)
  THEN [(IF fz THEN freeze(W, cp) ELSE W) EXCEPT !.ret = Ref(cp)]
  ELSE LET W1 == FinalizeSlot(W, W.heap[cp].arr[i], fz)
       IN IF W1.err THEN W1
          ELSE InPlaceLoop([W1 EXCEPT !.heap[cp].arr[i] = W1.ret], cp, i + 1, fz)

\* records: one pass over Object.keys(result)
RecordLoop(W, cp, i, fz) ==
  IF W.err THEN W
  ELSE IF i > Len(KeySeq)
  THEN [(IF fz THEN freeze(W, cp) ELSE W) EXCEPT !.ret = Ref(cp)]
  ELSE LET key == KeySeq[i]
           value == W.heap[cp].rec[key]
       IN IF value = Absent THEN RecordLoop(W, cp, i + 1, fz)
          ELSE LET W1 == FinalizeSlot(W, value, fz)
               IN IF W1.err THEN W1
                  ELSE RecordLoop([W1 EXCEPT !.heap[cp].rec[key] = W1.ret], cp, i + 1, fz)

\* variant of finalizeUnmodified that returns the node's latest object
finalizeUnmodified_latest(W, s, fz) ==
  LET value == latest(W, s)
  IN [(IF fz /\ ~W.heap[value].frozen THEN freeze(W, value) ELSE W) EXCEPT !.ret = Ref(value)]

\* finalize of a state that was never modified: base, frozen on request
finalizeUnmodified(W, s, fz) ==
  LET value == W.states[s].base
  IN [(IF fz /\ ~W.heap[value].frozen THEN freeze(W, value) ELSE W) EXCEPT !.ret = Ref(value)]

\* finalize of a state already finalized: state.copy ?? state.base
finalizeAgain(W, s) == [W EXCEPT !.ret = Ref(latest(W, s))]

finalize(W, s, fz) ==
  IF W.err THEN W ELSE
  LET st == W.states[s]
  IN IF st.finalized THEN finalizeAgain(W, s)
     ELSE IF ~st.modified THEN finalizeUnmodified(W, s, fz)
     ELSE LET W1 == [W EXCEPT !.states[s].finalized = TRUE]
              result == W1.heap[st.copy]
          IN IF result.kind = "arr"
             THEN IF hasNothing(result) THEN FilterLoop(W1, st.copy, 1, <<>>, fz)
                  ELSE IF ~hasDrafts(result)
                  THEN [(IF fz THEN freeze(W1, st.copy) ELSE W1) EXCEPT !.ret = Ref(st.copy)]
                  ELSE InPlaceLoop(W1, st.copy, 1, fz)
             ELSE RecordLoop(W1, st.copy, 1, fz)

\* manual.ts finishDraft: getState(draft) reads draft[DRAFT_STATE], which
\* throws on undefined and null; a value without draft state comes back as
\* it is
finishDraft(W, d) ==
  IF d.t = "undef" \/ d.t = "null" THEN [W EXCEPT !.err = TRUE]
  ELSE IF getState(W, d) = 0 THEN [W EXCEPT !.ret = d]
  ELSE finalize(W, getState(W, d), TRUE)

\* freeze(obj, true): a frozen object stops the walk, and only own
\* enumerable keys are followed, so a Map or a Set is frozen without its
\* entries being visited
RECURSIVE freezeDeep(_, _)
RECURSIVE FreezeEach(_, _)
freezeDeep(W, v) ==
  IF v.t # "ref" THEN W
  ELSE IF W.heap[v.v].frozen THEN W
  ELSE LET o == W.heap[v.v]
           own == IF o.kind = "arr" THEN o.arr
                  ELSE IF o.kind = "rec" THEN <<o.rec["a"], o.rec["b"]>>
                  ELSE <<>>
       IN FreezeEach(freeze(W, v.v), own)

FreezeEach(W, vals) ==
  IF vals = <<>> THEN W ELSE FreezeEach(freezeDeep(W, Head(vals)), Tail(vals))

\* mapState.copy ?? mapState.base : the container a map / set view stands
\* for, as it is
MapSnapshot(W, s) == [W EXCEPT !.ret = Ref(latest(W, s))]

\* utils current(value)
RECURSIVE current(_, _)
RECURSIVE CurrentEach(_, _, _)
current(W, value) ==
  IF W.err THEN W
  ELSE IF ~isDraft(value)
  THEN IF getMapState(W, value) # 0 THEN MapSnapshot(W, value.v)
       ELSE IF getSetState(W, value) # 0 THEN MapSnapshot(W, value.v)
       ELSE [W EXCEPT !.ret = value]
  ELSE LET state == getState(W, value)
       IN IF state = 0 THEN [W EXCEPT !.ret = value]
          ELSE LET W1 == Alloc(W, shallowCopy(W.heap[latest(W, state)]))
                   result == NewId(W)
                   W2 == CurrentEach(W1, result, 1)
               IN IF W2.err THEN W2
                  ELSE [freezeDeep(W2, Ref(result)) EXCEPT !.ret = Ref(result)]

\* each(result, ...) : every index of an array (a hole reads undefined),
\* every own key of a record; getMapState(val) throws on undefined and null
CurrentEach(W, result, i) ==
  IF W.err THEN W
  ELSE LET o == W.heap[result]
           isArr == o.kind = "arr"
       IN IF i > (IF isArr THEN Len(o.arr) ELSE Len(KeySeq)) THEN W
          ELSE LET val == IF isArr THEN ObjGet(o, i - 1) ELSE o.rec[KeySeq[i]]
                   W1 == IF val = Absent THEN [W EXCEPT !.ret = val]
                         ELSE IF val.t = "undef" \/ val.t = "null" THEN [W EXCEPT !.err = TRUE]
                         ELSE IF getMapState(W, val) # 0 THEN MapSnapshot(W, val.v)
                         ELSE IF getSetState(W, val) # 0 THEN MapSnapshot(W, val.v)
                         ELSE IF isDraft(val) THEN current(W, val)
                         ELSE [W EXCEPT !.ret = val]
               IN IF W1.err THEN W1
                  ELSE IF val = Absent THEN CurrentEach(W1, result, i + 1)
                  ELSE CurrentEach(
                         IF isArr THEN [W1 EXCEPT !.heap[result].arr[i] = W1.ret]
                         ELSE [W1 EXCEPT !.heap[result].rec[KeySeq[i]] = W1.ret],
                         result, i + 1)

\* ------------------------------------------------- array in-place methods
\* The get trap answers push/pop/shift/unshift/reverse by marking the node
\* changed and handing out the native method; the call then runs the native
\* algorithm with the proxy as receiver, i.e. through the traps above.
MethodAccess(W, s) == IF ~W.states[s].modified THEN markChanged(W, s) ELSE W

LenOf(W, s) == Len(W.heap[latest(W, s)].arr)

arrayPush(W, s, v) ==
  LET W0 == MethodAccess(W, s)
      len == LenOf(W0, s)
      W1 == SetTrap(W0, s, len, v)
      W2 == SetTrap(W1, s, LEN, Num(len + 1))
  IN IF W2.err THEN W2 ELSE [W2 EXCEPT !.ret = Num(len + 1)]

arrayPop(W, s) ==
  LET W0 == MethodAccess(W, s)
      len == LenOf(W0, s)
  IN IF len = 0 THEN [SetTrap(W0, s, LEN, Num(0)) EXCEPT !.ret = Undef]
     ELSE LET W1 == GetTrap(W0, s, len - 1)
              W2 == DeleteTrap(W1, s, len - 1)
              W3 == SetTrap(W2, s, LEN, Num(len - 1))
          IN IF W3.err THEN W3 ELSE [W3 EXCEPT !.ret = W1.ret]

\* one step of the element move loops: Has(from) ? Set(to, Get(from)) : Delete(to)
MoveSlot(W, s, from, to) ==
  IF W.err THEN W
  ELSE IF HasTrap(W, s, from)
  THEN LET W1 == GetTrap(W, s, from) IN SetTrap(W1, s, to, W1.ret)
  ELSE DeleteTrap(W, s, to)

RECURSIVE ShiftLoop(_, _, _, _)
ShiftLoop(W, s, k, len) ==
  IF k >= len THEN W ELSE ShiftLoop(MoveSlot(W, s, k, k - 1), s, k + 1, len)

arrayShift(W, s) ==
  LET W0 == MethodAccess(W, s)
      len == LenOf(W0, s)
  IN IF len = 0 THEN [SetTrap(W0, s, LEN, Num(0)) EXCEPT !.ret = Undef]
     ELSE LET W1 == GetTrap(W0, s, 0)
              W2 == ShiftLoop(W1, s, 1, len)
              W3 == DeleteTrap(W2, s, len - 1)
              W4 == SetTrap(W3, s, LEN, Num(len - 1))
          IN IF W4.err THEN W4 ELSE [W4 EXCEPT !.ret = W1.ret]

RECURSIVE UnshiftLoop(_, _, _)
UnshiftLoop(W, s, k) ==
  IF k <= 0 THEN W ELSE UnshiftLoop(MoveSlot(W, s, k - 1, k), s, k - 1)

arrayUnshift(W, s, v) ==
  LET W0 == MethodAccess(W, s)
      len == LenOf(W0, s)
      W1 == UnshiftLoop(W0, s, len)
      W2 == SetTrap(W1, s, 0, v)
      W3 == SetTrap(W2, s, LEN, Num(len + 1))
  IN IF W3.err THEN W3 ELSE [W3 EXCEPT !.ret = Num(len + 1)]

RECURSIVE ReverseLoop(_, _, _, _)
ReverseLoop(W, s, lower, len) ==
  IF W.err \/ lower >= len \div 2 THEN W
  ELSE LET upper == len - lower - 1
           lowerExists == HasTrap(W, s, lower)
           W1 == IF lowerExists THEN GetTrap(W, s, lower) ELSE W
           upperExists == HasTrap(W1, s, upper)
           W2 == IF upperExists THEN GetTrap(W1, s, upper) ELSE W1
           W3 == IF lowerExists /\ upperExists
                 THEN SetTrap(SetTrap(W2, s, lower, W2.ret), s, upper, W1.ret)
                 ELSE IF upperExists
                 THEN DeleteTrap(SetTrap(W2, s, lower, W2.ret), s, upper)
                 ELSE IF lowerExists
                 THEN SetTrap(DeleteTrap(W2, s, lower), s, upper, W1.ret)
                 ELSE W2
       IN ReverseLoop(W3, s, lower + 1, len)

arrayReverse(W, s) ==
  LET W0 == MethodAccess(W, s)
      W1 == ReverseLoop(W0, s, 0, LenOf(W0, s))
  IN IF W1.err THEN W1 ELSE [W1 EXCEPT !.ret = Draft(s)]

\* ---------------------------------------------------------- initial trees
\* Objects 1..Spare-1 are the base tree (object 1 is its root); object Spare
\* is a plain record the caller owns and may assign into the draft.
KV(a, b) == [k \in Keys |-> IF k = "a" THEN a ELSE b]

ShapeRecords ==
  << Rec(KV(Ref(2), Ref(3))), Rec(KV(Ref(4), Num(1))), Arr(<<Num(1), Num(2), Num(3)>>),
     Rec(KV(Num(0), Absent)), Rec(KV(Num(7), Absent)) >>

ShapeArray ==
  << Arr(<<Ref(2), Num(1), Ref(3)>>), Arr(<<Num(0), Null>>), Rec(KV(Ref(4), Num(1))),
     Rec(KV(Num(0), Absent)), Rec(KV(Num(7), Absent)) >>

ShapeContainers ==
  << Rec(KV(Ref(2), Ref(3))), MapObj(KV(Ref(4), Num(1))), SetObj(<<Num(1), Num(2)>>),
     Rec(KV(Num(0), Absent)), Rec(KV(Num(7), Absent)) >>

Shapes == {ShapeRecords, ShapeArray, ShapeContainers}

Spare == Len(ShapeRecords)
BaseIds == 1..(Spare - 1)

RootDraft == Draft(1)
Threw == [t |-> "threw", v |-> 0]
Pending == [t |-> "pending", v |-> 0]

\* one operation of the caller: its name, the view (draft state) it goes
\* through, the property or key, and the value passed
Entry(op, s, p, v) == [op |-> op, s |-> s, p |-> p, v |-> v]
NoCall == Entry("init", 0, 0, Undef)

\* config.ts defaultConfig (useStrictShallowCopy and customShallowCopy are
\* left out: every copy here is the default shallow copy)
defaultConfig == [autoFreeze |-> TRUE]

\* createDraft(base): createProxy(base, null)
Init ==
  /\ heap \in Shapes
  /\ heap0 = heap
  /\ states = <<NewState("obj", 1, 0)>>
  /\ held = {RootDraft, Ref(Spare)}
  /\ ret = Undef
  /\ threw = FALSE
  /\ res = <<>>
  /\ nops = 0
  /\ log = <<>>
  /\ last = "init"
  /\ fins = 0
  /\ call = NoCall
  /\ config = defaultConfig
  /\ pbase = Undef /\ pnext = Undef
  /\ patches = <<>> /\ inversePatches = <<>>
  /\ applied = Pending /\ reverted = Pending

\* ------------------------------------------------------------ the caller
Cur == World(heap, states)

HeldDrafts(kind) == {d \in held : d.t = "draft" /\ states[d.v].kind = kind}
HeldRefs == {d \in held : d.t = "ref"}
IsArrayState(s) == heap[states[s].base].kind = "arr"
ArrayDrafts == {d \in HeldDrafts("obj") : IsArrayState(d.v)}

\* the property names the caller uses on a record / array view
Props(s) == IF IsArrayState(s) THEN 0..Len(heap[latest(Cur, s)].arr) ELSE Keys

\* the values the caller writes: a number, the deletion marker, its own
\* plain record and any view it holds
HeldViews == {d \in held : d.t = "draft"}
PlainVals == {Num(7), Ref(Spare)} \cup HeldViews
WriteVals == PlainVals \cup {nothing}

\* An operation's effect on the program state, plus the bookkeeping of the
\* session: log holds the operations other than reads, in order.
Done(W, e, isRead) ==
  /\ heap' = W.heap
  /\ states' = W.states
  /\ ret' = (IF W.err THEN Threw ELSE W.ret)
  /\ threw' = W.err
  /\ held' = (IF ~W.err /\ IsObjVal(W.ret) THEN held \cup {W.ret} ELSE held)
  /\ nops' = nops + 1
  /\ log' = (IF isRead THEN log ELSE Append(log, e))
  /\ last' = e.op
  /\ call' = e
  /\ fins' = 0
  /\ UNCHANGED <<res, heap0, patchVars, config>>

NMut == Cardinality({i \in 1..Len(log) : log[i].op # "finish"})
CanRead == nops < MaxOps
CanOp == nops < MaxOps /\ NMut < MaxMut

Get == \E d \in HeldDrafts("obj") : \E p \in Props(d.v) :
  CanRead /\ Done(GetTrap(Cur, d.v, p), Entry("get", d.v, p, Undef), TRUE)

Set == \E d \in HeldDrafts("obj") : \E p \in Props(d.v) : \E v \in WriteVals :
  CanOp /\ Done(SetTrap(Cur, d.v, p, v), Entry("set", d.v, p, v), FALSE)

Delete == \E d \in HeldDrafts("obj") : \E p \in Props(d.v) :
  CanOp /\ Done(DeleteTrap(Cur, d.v, p), Entry("delete", d.v, p, Undef), FALSE)

Push == \E d \in ArrayDrafts : \E v \in PlainVals :
  CanOp /\ Done(arrayPush(Cur, d.v, v), Entry("push", d.v, 0, v), FALSE)
Pop == \E d \in ArrayDrafts :
  CanOp /\ Done(arrayPop(Cur, d.v), Entry("pop", d.v, 0, Undef), FALSE)
Shift == \E d \in ArrayDrafts :
  CanOp /\ Done(arrayShift(Cur, d.v), Entry("shift", d.v, 0, Undef), FALSE)
Unshift == \E d \in ArrayDrafts : \E v \in PlainVals :
  CanOp /\ Done(arrayUnshift(Cur, d.v, v), Entry("unshift", d.v, 0, v), FALSE)
Reverse == \E d \in ArrayDrafts :
  CanOp /\ Done(arrayReverse(Cur, d.v), Entry("reverse", d.v, 0, Undef), FALSE)

MapSet == \E d \in HeldDrafts("map") : \E k \in Keys : \E v \in PlainVals :
  CanOp /\ Done(mapSet(Cur, d.v, k, v), Entry("mapSet", d.v, k, v), FALSE)
MapDelete == \E d \in HeldDrafts("map") : \E k \in Keys :
  CanOp /\ Done(mapDelete(Cur, d.v, k), Entry("mapDelete", d.v, k, Undef), FALSE)
MapClear == \E d \in HeldDrafts("map") :
  CanOp /\ Done(mapClear(Cur, d.v), Entry("mapClear", d.v, 0, Undef), FALSE)
MapGet == \E d \in HeldDrafts("map") : \E k \in Keys :
  CanRead /\ Done(mapGet(Cur, d.v, k), Entry("mapGet", d.v, k, Undef), TRUE)

SetAdd == \E d \in HeldDrafts("set") : \E v \in PlainVals :
  CanOp /\ Done(setAdd(Cur, d.v, v), Entry("setAdd", d.v, 0, v), FALSE)
SetDelete == \E d \in HeldDrafts("set") : \E v \in {Num(1), Num(7)} :
  CanOp /\ Done(setDelete(Cur, d.v, v), Entry("setDelete", d.v, 0, v), FALSE)
SetClear == \E d \in HeldDrafts("set") :
  CanOp /\ Done(setClear(Cur, d.v), Entry("setClear", d.v, 0, Undef), FALSE)

\* the caller assigns a field of a plain object it was handed (strict mode:
\* a frozen object makes the assignment throw)
RawWrite == \E r \in HeldRefs : \E k \in Keys :
  /\ CanOp
  /\ heap[r.v].kind = "rec"
  /\ Done(IF heap[r.v].frozen THEN [Cur EXCEPT !.err = TRUE]
          ELSE [Cur EXCEPT !.heap[r.v].rec[k] = Num(9)],
          Entry("rawWrite", r.v, k, Num(9)), FALSE)

\* finishDraft(draft) on the root view
FinishDraft ==
  /\ Len(res) < MaxFinish
  /\ nops < MaxOps
  /\ LET W == finishDraft(Cur, RootDraft)
     IN /\ heap' = W.heap
        /\ states' = W.states
        /\ ret' = (IF W.err THEN Threw ELSE W.ret)
        /\ threw' = W.err
        /\ res' = Append(res, IF W.err THEN Threw ELSE W.ret)
        /\ held' = (IF ~W.err /\ IsObjVal(W.ret) THEN held \cup {W.ret} ELSE held)
        /\ log' = Append(log, Entry("finish", 1, 0, Undef))
        /\ last' = "finish"
        /\ call' = Entry("finish", 1, 0, Undef)
        /\ fins' = fins + 1
        /\ nops' = nops + 1
        /\ UNCHANGED <<heap0, patchVars, config>>

Next ==
  \/ Get \/ Set \/ Delete
  \/ Push \/ Pop \/ Shift \/ Unshift \/ Reverse
  \/ MapSet \/ MapDelete \/ MapClear \/ MapGet
  \/ SetAdd \/ SetDelete \/ SetClear
  \/ RawWrite
  \/ FinishDraft

Spec == Init /\ [][Next]_vars

\* ------------------------------------------- further calls of the caller
\* Reads of a map / set view, and finishDraft on a value that is no view.
ContainerDrafts == HeldDrafts("map") \cup HeldDrafts("set")

Size == \E d \in ContainerDrafts :
  CanRead /\ Done(viewSize(Cur, d.v), Entry("size", d.v, 0, Undef), TRUE)
MapHas == \E d \in HeldDrafts("map") : \E k \in Keys :
  CanRead /\ Done(mapHas(Cur, d.v, k), Entry("mapHas", d.v, k, Undef), TRUE)
SetHas == \E d \in HeldDrafts("set") : \E v \in {Num(1), Num(7)} :
  CanRead /\ Done(setHas(Cur, d.v, v), Entry("setHas", d.v, 0, v), TRUE)

PlainArgs == HeldRefs \cup {Num(7), Null}

FinishPlain == \E v \in PlainArgs :
  CanRead /\ Done(finishDraft(Cur, v), Entry("finishPlain", 0, 0, v), TRUE)

NextApi == Next \/ Size \/ MapHas \/ SetHas \/ FinishPlain

SpecApi == Init /\ [][NextApi]_vars

\* setAutoFreeze(enabled): config.autoFreeze = enabled
SetAutoFreeze == \E enabled \in BOOLEAN :
  /\ nops < MaxOps
  /\ config' = [config EXCEPT !.autoFreeze = enabled]
  /\ nops' = nops + 1
  /\ last' = "setAutoFreeze"
  /\ call' = Entry("setAutoFreeze", 0, 0, Bool(enabled))
  /\ fins' = 0
  /\ UNCHANGED <<heap, states, held, ret, threw, res, heap0, log, patchVars>>

NextConfig == Next \/ SetAutoFreeze

\* ---------------------------------------------- shape queries on a view
\* `k in view` and Reflect.ownKeys(view). A key list comes back as the
\* number whose binary digits say which keys are in it.
KeyBit(p, isArr) == IF isArr THEN 2 ^ (p + 1) ELSE IF p = "a" THEN 1 ELSE 2

RECURSIVE KeyList(_, _)
KeyList(S, isArr) ==
  IF S = {} THEN 0
  ELSE LET p == CHOOSE q \in S : TRUE IN KeyBit(p, isArr) + KeyList(S \ {p}, isArr)

Has == \E d \in HeldDrafts("obj") : \E p \in Props(d.v) :
  CanRead /\ Done([Cur EXCEPT !.ret = Bool(HasTrap(Cur, d.v, p))], Entry("has", d.v, p, Undef), TRUE)

OwnKeys == \E d \in HeldDrafts("obj") :
  CanRead /\ Done([Cur EXCEPT !.ret = [t |-> "keys", v |-> KeyList(OwnKeysTrap(Cur, d.v), IsArrayState(d.v))]],
                  Entry("ownKeys", d.v, 0, Undef), TRUE)

NextRead == Next \/ Has \/ OwnKeys

\* `const f = view.push`: the get trap on the name of an in-place array
\* operation, the function it returns not being called
ARRAY_METHODS == {"push", "pop", "shift", "unshift", "splice", "sort", "reverse"}
Function == [t |-> "function", v |-> 0]

GetMethod == \E d \in ArrayDrafts : \E m \in ARRAY_METHODS :
  CanRead /\ Done([MethodAccess(Cur, d.v) EXCEPT !.ret = Function],
                  Entry("getMethod", d.v, m, Undef), TRUE)

NextMethod == Next \/ GetMethod

\* ------------------------------------------- a map or set at other places
\* createDraft(base) for a base that is itself a map or a set, and for an
\* array that holds a map and a set
ShapeMapRoot ==
  << MapObj(KV(Ref(2), Num(1))), Rec(KV(Num(0), Absent)), Rec(KV(Num(1), Absent)),
     Rec(KV(Num(2), Absent)), Rec(KV(Num(7), Absent)) >>

ShapeSetRoot ==
  << SetObj(<<Num(1), Num(2)>>), Rec(KV(Num(0), Absent)), Rec(KV(Num(1), Absent)),
     Rec(KV(Num(2), Absent)), Rec(KV(Num(7), Absent)) >>

ShapeArrayContainers ==
  << Arr(<<Ref(2), Num(1), Ref(3)>>), MapObj(KV(Ref(4), Num(1))), SetObj(<<Num(1), Num(2)>>),
     Rec(KV(Num(0), Absent)), Rec(KV(Num(7), Absent)) >>

RootShapes == Shapes \cup {ShapeMapRoot, ShapeSetRoot, ShapeArrayContainers}

InitRoot ==
  /\ heap \in RootShapes
  /\ heap0 = heap
  /\ states = <<NewState(StateKind(heap[1]), 1, 0)>>
  /\ held = {RootDraft, Ref(Spare)}
  /\ ret = Undef
  /\ threw = FALSE
  /\ res = <<>>
  /\ nops = 0
  /\ log = <<>>
  /\ last = "init"
  /\ fins = 0
  /\ call = NoCall
  /\ config = defaultConfig
  /\ pbase = Undef /\ pnext = Undef
  /\ patches = <<>> /\ inversePatches = <<>>
  /\ applied = Pending /\ reverted = Pending

SpecRoot == InitRoot /\ [][Next]_vars

\* ------------------------------------------ a session on an array's views
\* The session begins with the caller reading nested values of a base
\* array: `d = createDraft(base); x = d[0]; y = d[2]`.
RECURSIVE ReadAll(_, _, _)
ReadAll(W, s, ps) ==
  IF ps = <<>> THEN W ELSE ReadAll(GetTrap(W, s, Head(ps)), s, Tail(ps))

FirstReads == {<<0, 2>>}

InitSeq ==
  \E shape \in {ShapeArray, ShapeArrayContainers} : \E ps \in FirstReads :
    LET W == ReadAll(World(shape, <<NewState("obj", 1, 0)>>), 1, ps)
    IN /\ heap = W.heap
       /\ heap0 = shape
       /\ states = W.states
       /\ held = {RootDraft, Ref(Spare)} \cup {Draft(t) : t \in 2..Len(W.states)}
       /\ ret = W.ret
       /\ threw = FALSE
       /\ res = <<>>
       /\ nops = 0
       /\ log = <<>>
       /\ last = "init"
       /\ fins = 0
       /\ call = NoCall
       /\ config = defaultConfig
       /\ pbase = Undef /\ pnext = Undef
       /\ patches = <<>> /\ inversePatches = <<>>
       /\ applied = Pending /\ reverted = Pending

\* the caller goes on to write slots (the deletion marker among the values),
\* to change the views it read, and to finish
NextSeq == Set \/ MapSet \/ SetAdd \/ FinishDraft

SpecSeq == InitSeq /\ [][NextSeq]_vars

\* the caller takes a snapshot of a view it holds, between the writes of
\* a session whose nested views were read first
Current == \E d \in HeldViews :
  CanRead /\ Done(current(Cur, d), Entry("current", d.v, 0, Undef), TRUE)

NextCurrent == NextSeq \/ Current
SpecCurrent == InitSeq /\ [][NextCurrent]_vars

SpecMethod == Init /\ [][NextMethod]_vars

SpecRead == Init /\ [][NextRead]_vars

SpecConfig == Init /\ [][NextConfig]_vars

\* ============================================================ patches.ts
\* A path segment: a record / map key k, or an array / set index i.
Key(k) == [k |-> k, i |-> -1]
Idx(n) == [k |-> "", i |-> n]
Patch(op, path, value) == [op |-> op, path |-> path, value |-> value]

\* the property a segment names on object o
PropOf(o, seg) == IF o.kind = "arr" \/ o.kind = "set" THEN seg.i ELSE seg.k

\* variant of getType that tells a map from a record no better than typeof
getType_typeofMap(h, v) ==
  IF v.t = "ref"
  THEN (CASE h[v.v].kind = "arr" -> "array"
          [] h[v.v].kind = "set" -> "set"
          [] OTHER -> "object")
  ELSE v.t

getType(h, v) ==
  IF v.t = "ref"
  THEN (CASE h[v.v].kind = "arr" -> "array"
          [] h[v.v].kind = "map" -> "map"
          [] h[v.v].kind = "set" -> "set"
          [] OTHER -> "object")
  ELSE v.t

\* variant of Emit that appends the inverse operation
Emit_append(P, fwd, inv) ==
  [patches |-> Append(P.patches, fwd), inverse |-> Append(P.inverse, inv)]

\* patches.push(fwd); inversePatches.unshift(inv)
Emit(P, fwd, inv) == [patches |-> Append(P.patches, fwd), inverse |-> <<inv>> \o P.inverse]

RECURSIVE generatePatches(_, _, _, _, _)
RECURSIVE ArrayRemoved(_, _, _, _, _, _)
RECURSIVE ArrayAdded(_, _, _, _, _, _)
RECURSIVE ArrayCompare(_, _, _, _, _, _)
RECURSIVE KeysRemoved(_, _, _, _, _, _)
RECURSIVE KeysAddedOrModified(_, _, _, _, _, _)

\* for (i = next.length; i < base.length; i++) remove i / inverse add i
ArrayRemoved(h, b, n, P, path, i) ==
  IF i >= Len(b.arr) THEN P
  ELSE ArrayRemoved(h, b, n,
         Emit(P, Patch("remove", Append(path, Idx(i)), Undef),
                 Patch("add", Append(path, Idx(i)), ObjGet(b, i))),
         path, i + 1)

\* for (i = base.length; i < next.length; i++) add i / inverse remove i
ArrayAdded(h, b, n, P, path, i) ==
  IF i >= Len(n.arr) THEN P
  ELSE ArrayAdded(h, b, n,
         Emit(P, Patch("add", Append(path, Idx(i)), ObjGet(n, i)),
                 Patch("remove", Append(path, Idx(i)), Undef)),
         path, i + 1)

ArrayCompare(h, b, n, P, path, i) ==
  IF i >= Len(b.arr) \/ i >= Len(n.arr) THEN P
  ELSE ArrayCompare(h, b, n,
         generatePatches(h, ObjGet(b, i), ObjGet(n, i), P, Append(path, Idx(i))),
         path, i + 1)

\* variant of generateArrayPatches that compares the common prefix first
generateArrayPatches_prefixFirst(h, b, n, P, path) ==
  LET P1 == ArrayCompare(h, b, n, P, path, 0)
  IN IF Len(b.arr) > Len(n.arr) THEN ArrayRemoved(h, b, n, P1, path, Len(n.arr))
     ELSE IF Len(n.arr) > Len(b.arr) THEN ArrayAdded(h, b, n, P1, path, Len(b.arr))
     ELSE P1

generateArrayPatches(h, b, n, P, path) ==
  LET P1 == IF Len(b.arr) > Len(n.arr) THEN ArrayRemoved(h, b, n, P, path, Len(n.arr))
            ELSE IF Len(n.arr) > Len(b.arr) THEN ArrayAdded(h, b, n, P, path, Len(b.arr))
            ELSE P
  IN ArrayCompare(h, b, n, P1, path, 0)

\* generateObjectPatches and generateMapPatches, first loop: keys only in base
KeysRemoved(h, b, n, P, path, i) ==
  IF i > Len(KeySeq) THEN P
  ELSE LET key == KeySeq[i]
       IN KeysRemoved(h, b, n,
            IF ObjHas(b, key) /\ ~ObjHas(n, key)
            THEN Emit(P, Patch("remove", Append(path, Key(key)), Undef),
                         Patch("add", Append(path, Key(key)), ObjGet(b, key)))
            ELSE P,
            path, i + 1)

\* second loop: keys only in next are added, keys in both are compared
KeysAddedOrModified(h, b, n, P, path, i) ==
  IF i > Len(KeySeq) THEN P
  ELSE LET key == KeySeq[i]
       IN KeysAddedOrModified(h, b, n,
            IF ~ObjHas(n, key) THEN P
            ELSE IF ~ObjHas(b, key)
            THEN Emit(P, Patch("add", Append(path, Key(key)), ObjGet(n, key)),
                         Patch("remove", Append(path, Key(key)), Undef))
            ELSE IF ObjGet(b, key) # ObjGet(n, key)
            THEN generatePatches(h, ObjGet(b, key), ObjGet(n, key), P, Append(path, Key(key)))
            ELSE P,
            path, i + 1)

\* variant of generateObjectPatches without the loop over base's keys
generateObjectPatches_noRemoved(h, b, n, P, path) ==
  KeysAddedOrModified(h, b, n, P, path, 1)

generateObjectPatches(h, b, n, P, path) ==
  KeysAddedOrModified(h, b, n, KeysRemoved(h, b, n, P, path, 1), path, 1)

generateMapPatches(h, b, n, P, path) ==
  KeysAddedOrModified(h, b, n, KeysRemoved(h, b, n, P, path, 1), path, 1)

\* generateSetPatches: the position in iteration order stands for a key
SetRemoved(h, b, n, P, path) ==
  LET F[i \in 0..Len(b.arr)] ==
        IF i = 0 THEN P
        ELSE IF ~SeqHas(n.arr, b.arr[i])
        THEN Emit(F[i - 1], Patch("remove", Append(path, Idx(i - 1)), b.arr[i]),
                            Patch("add", Append(path, Idx(i - 1)), b.arr[i]))
        ELSE F[i - 1]
  IN F[Len(b.arr)]

SetAdded(h, b, n, P, path) ==
  LET F[i \in 0..Len(n.arr)] ==
        IF i = 0 THEN P
        ELSE IF ~SeqHas(b.arr, n.arr[i])
        THEN Emit(F[i - 1], Patch("add", Append(path, Idx(i - 1)), n.arr[i]),
                            Patch("remove", Append(path, Idx(i - 1)), n.arr[i]))
        ELSE F[i - 1]
  IN F[Len(n.arr)]

generateSetPatches(h, b, n, P, path) ==
  SetAdded(h, b, n, SetRemoved(h, b, n, P, path), path)

\* variant of generatePatches without the identity test at its head
generatePatches_noIdentityTest(h, base, next, P, basePath) ==
  IF getType(h, base) # getType(h, next)
  THEN Emit(P, Patch("replace", basePath, next), Patch("replace", basePath, base))
  ELSE CASE getType(h, next) = "array" ->
              generateArrayPatches(h, h[base.v], h[next.v], P, basePath)
         [] getType(h, next) = "object" ->
              generateObjectPatches(h, h[base.v], h[next.v], P, basePath)
         [] getType(h, next) = "map" ->
              generateMapPatches(h, h[base.v], h[next.v], P, basePath)
         [] getType(h, next) = "set" ->
              generateSetPatches(h, h[base.v], h[next.v], P, basePath)
         [] OTHER ->
              Emit(P, Patch("replace", basePath, next), Patch("replace", basePath, base))

generatePatches(h, base, next, P, basePath) ==
  IF base = next THEN P
  ELSE IF getType(h, base) # getType(h, next)
  THEN Emit(P, Patch("replace", basePath, next), Patch("replace", basePath, base))
  ELSE CASE getType(h, next) = "array" ->
              generateArrayPatches(h, h[base.v], h[next.v], P, basePath)
         [] getType(h, next) = "object" ->
              generateObjectPatches(h, h[base.v], h[next.v], P, basePath)
         [] getType(h, next) = "map" ->
              generateMapPatches(h, h[base.v], h[next.v], P, basePath)
         [] getType(h, next) = "set" ->
              generateSetPatches(h, h[base.v], h[next.v], P, basePath)
         [] OTHER ->
              Emit(P, Patch("replace", basePath, next), Patch("replace", basePath, base))

NoPatches == [patches |-> <<>>, inverse |-> <<>>]

\* variant of shallowClone that hands back the object itself
shallowClone_same(W, v) == [W EXCEPT !.ret = v]

\* shallowClone(obj): ret is the clone (the value itself when it is no object)
shallowClone(W, v) ==
  IF v.t = "ref" THEN [Alloc(W, shallowCopy(W.heap[v.v])) EXCEPT !.ret = Ref(NewId(W))]
  ELSE [W EXCEPT !.ret = v]

\* copy.splice(key, 1)
Splice1(q, k) == [i \in 1..(IF k < Len(q) THEN Len(q) - 1 ELSE Len(q)) |->
                    IF i <= k THEN q[i] ELSE q[i + 1]]

\* the switch of applyPatchAtPath on the clone c of the last container
InstallOp(o, key, patch) ==
  IF patch.op = "remove"
  THEN (CASE o.kind = "arr" -> [o EXCEPT !.arr = Splice1(@, key.i)]
          [] o.kind = "map" -> [o EXCEPT !.rec[key.k] = Absent]
          [] o.kind = "set" -> [o EXCEPT !.arr = SeqRemove(@, patch.value)]
          [] OTHER -> [o EXCEPT !.rec[key.k] = Absent])
  ELSE (CASE o.kind = "arr" -> ObjSet(o, key.i, patch.value)
          [] o.kind = "map" -> [o EXCEPT !.rec[key.k] = patch.value]
          [] o.kind = "set" ->
               [o EXCEPT !.arr = IF SeqHas(@, patch.value) THEN @ ELSE Append(@, patch.value)]
          [] OTHER -> [o EXCEPT !.rec[key.k] = patch.value])

RECURSIVE applyPatchAtPath(_, _, _, _)
applyPatchAtPath(W, obj, path, patch) ==
  IF W.err THEN W
  ELSE IF obj.t # "ref"
  THEN \* a primitive: delete on it does nothing, an assignment to it throws;
       \* null and undefined throw either way, and so does any longer path
       IF Len(path) = 1 /\ patch.op = "remove" /\ obj.t # "undef" /\ obj.t # "null"
       THEN [W EXCEPT !.ret = obj]
       ELSE [W EXCEPT !.err = TRUE]
  ELSE LET key == path[1]
           W1 == shallowClone(W, obj)
           copy == W1.ret.v
       IN IF Len(path) = 1
          THEN [W1 EXCEPT !.heap[copy] = InstallOp(@, key, patch)]
          ELSE LET o == W.heap[obj.v]
                   nested == IF o.kind = "set" THEN Undef ELSE ObjGet(o, PropOf(o, key))
                   W2 == applyPatchAtPath(W1, nested, Tail(path), patch)
               IN IF W2.err THEN W2
                  ELSE [W2 EXCEPT !.heap[copy] =
                                     IF @.kind = "set" THEN @ ELSE ObjSet(@, PropOf(@, key), W2.ret),
                                  !.ret = Ref(copy)]

\* variant of applyPatch that lets an add or remove at the root pass
applyPatch_lenient(W, base, patch) ==
  IF W.err THEN W
  ELSE IF Len(patch.path) = 0
  THEN IF patch.op = "replace" THEN [W EXCEPT !.ret = patch.value] ELSE [W EXCEPT !.ret = base]
  ELSE applyPatchAtPath(W, base, patch.path, patch)

applyPatch(W, base, patch) ==
  IF W.err THEN W
  ELSE IF Len(patch.path) = 0
  THEN IF patch.op = "replace" THEN [W EXCEPT !.ret = patch.value] ELSE [W EXCEPT !.err = TRUE]
  ELSE applyPatchAtPath(W, base, patch.path, patch)

RECURSIVE applyPatches(_, _, _)
applyPatches(W, base, ps) ==
  IF W.err THEN W
  ELSE IF ps = <<>> THEN [W EXCEPT !.ret = base]
  ELSE LET W1 == applyPatch(W, base, Head(ps))
       IN applyPatches(W1, W1.ret, Tail(ps))

\* ------------------------------------------------- the patch round trip
\* The plain values the differ is run on.  Any pair of them is a (base,
\* next) pair of a producer, which may return a new value outright.
PatchHeap ==
  << Arr(<<Num(1), Num(2), Num(3)>>),            \* 1
     Arr(<<Num(1)>>),                            \* 2
     Arr(<<Num(7), Num(2)>>),                    \* 3
     Arr(<<>>),                                  \* 4
     Rec(KV(Num(1), Absent)),                    \* 5
     Rec(KV(Num(2), Num(1))),                    \* 6
     Rec(KV(Absent, Num(1))),                    \* 7
     Rec(KV(Ref(1), Ref(5))),                    \* 8
     Rec(KV(Ref(2), Ref(6))),                    \* 9
     Arr(<<Ref(5), Ref(1), Num(1)>>),            \* 10
     Arr(<<Ref(6)>>),                            \* 11
     MapObj(KV(Num(1), Absent)),                 \* 12
     MapObj(KV(Ref(5), Num(2))),                 \* 13
     MapObj(KV(Ref(6), Ref(3))),                 \* 14
     SetObj(<<Num(1), Num(2)>>),                 \* 15
     SetObj(<<Num(2), Num(7), Num(3)>>),         \* 16
     SetObj(<<Ref(5), Num(1)>>),                 \* 17
     Rec(KV(Ref(12), Ref(15))),                  \* 18
     Rec(KV(Ref(13), Ref(16))),                  \* 19
     Rec(KV(Ref(10), Ref(8))),                   \* 20
     Rec(KV(Ref(11), Ref(9))),                   \* 21
     Arr(<<Num(1), Num(2)>>),                    \* 22
     Arr(<<Num(7), Num(1)>>),                    \* 23
     Rec(KV(Num(2), Absent)),                    \* 24
     Rec(KV(Null, Absent)),                      \* 25
     Arr(<<Num(1), Num(1)>>),                    \* 26
     Arr(<<Num(3), Num(1), Num(2)>>) >>          \* 27

PatchValues == {Ref(o) : o \in 1..Len(PatchHeap)} \cup {Num(1), Null}

InitPatch ==
  /\ heap = PatchHeap
  /\ heap0 = heap
  /\ states = <<>>
  /\ held = {}
  /\ ret = Undef
  /\ threw = FALSE
  /\ res = <<>>
  /\ nops = 0
  /\ log = <<>>
  /\ last = "init"
  /\ fins = 0
  /\ call = NoCall
  /\ config = defaultConfig
  /\ pbase \in PatchValues /\ pnext \in PatchValues
  /\ patches = <<>> /\ inversePatches = <<>>
  /\ applied = Pending /\ reverted = Pending

draftVars == <<states, held, ret, threw, res, nops, heap0, log, fins, call, config>>

\* generatePatches(base, next, patches, inversePatches) as craftWithPatches
\* calls it
Generate ==
  /\ last = "init"
  /\ LET P == generatePatches(heap, pbase, pnext, NoPatches, <<>>)
     IN patches' = P.patches /\ inversePatches' = P.inverse
  /\ last' = "generate"
  /\ UNCHANGED <<heap, pbase, pnext, applied, reverted, draftVars>>

\* applyPatches(base, patches)
ApplyForward ==
  /\ last # "init" /\ applied = Pending
  /\ LET W == applyPatches(World(heap, states), pbase, patches)
     IN /\ heap' = W.heap
        /\ applied' = (IF W.err THEN Threw ELSE W.ret)
  /\ last' = "apply"
  /\ UNCHANGED <<pbase, pnext, patches, inversePatches, reverted, draftVars>>

\* applyPatches(next, inversePatches)
ApplyInverse ==
  /\ last # "init" /\ reverted = Pending
  /\ LET W == applyPatches(World(heap, states), pnext, inversePatches)
     IN /\ heap' = W.heap
        /\ reverted' = (IF W.err THEN Threw ELSE W.ret)
  /\ last' = "revert"
  /\ UNCHANGED <<pbase, pnext, patches, inversePatches, applied, draftVars>>

NextPatch == Generate \/ ApplyForward \/ ApplyInverse

SpecPatch == InitPatch /\ [][NextPatch]_vars

\* ------------------------------------------------- craftWithPatches
\* the values stored in an object
Slots(o) == {o.rec[k] : k \in Keys} \cup {o.arr[i] : i \in 1..Len(o.arr)}
Kids(h, o) == {v.v : v \in {x \in Slots(h[o]) : x.t = "ref"}}

RECURSIVE ReachN(_, _, _)
ReachN(h, S, n) ==
  IF n = 0 THEN S ELSE ReachN(h, S \cup UNION {Kids(h, o) : o \in S}, n - 1)
\* the objects reachable from object o through plain references
Reach(h, o) == ReachN(h, {o}, Len(h))

\* no view is reachable from value v
NoViewIn(h, v) ==
  /\ v.t # "draft"
  /\ v.t = "ref" => \A o \in Reach(h, v.v) : \A x \in Slots(h[o]) : x.t # "draft"

\* craftWithPatches(base, producer) after producer(draft) returned undefined
\* and finishDraft(draft) returned nextState: generatePatches(base,
\* nextState, patches, inversePatches).  The session so far is the producer.
\* Results that still hold a view are left out: the differ would read them
\* through the view's traps.
CraftWithPatches ==
  /\ last = "finish" /\ ~threw /\ fins = 1
  /\ NoViewIn(heap, res[Len(res)])
  /\ LET P == generatePatches(heap, Ref(1), res[Len(res)], NoPatches, <<>>)
     IN patches' = P.patches /\ inversePatches' = P.inverse
  /\ pbase' = Ref(1)
  /\ pnext' = res[Len(res)]
  /\ last' = "generate"
  /\ call' = Entry("craftWithPatches", 1, 0, Undef)
  /\ UNCHANGED <<heap, states, held, ret, threw, res, nops, heap0, log, fins, applied, reverted,
                 config>>

NextCraft == Next \/ CraftWithPatches

SpecCraft == Init /\ [][NextCraft]_vars

\* craftWithPatches(base, producer) when producer(draft) returned a value:
\* `result !== undefined ? result : finishDraft(draft)` takes the value as
\* nextState and finishDraft is not called.  The producer returns a number,
\* its own record, or a view it read whose kind is not the root's (the diff
\* then stops at the root with one replace; a diff that reads through a view
\* of the root's kind is left out).
typeOfView(d) == getType(heap, Ref(states[d.v].base))

ReturnVals ==
  {Num(7), Ref(Spare)}
    \cup {d \in HeldViews : IF typeOfView(d) = getType(heap, Ref(1)) THEN FALSE ELSE TRUE}

CraftReturning == \E v \in ReturnVals :
  /\ res = <<>> /\ ~threw /\ last # "generate"
  /\ nops < MaxOps
  /\ LET P == generatePatches(heap, Ref(1), v, NoPatches, <<>>)
     IN patches' = P.patches /\ inversePatches' = P.inverse
  /\ pbase' = Ref(1)
  /\ pnext' = v
  /\ last' = "generate"
  /\ call' = Entry("craftReturning", 1, 0, v)
  /\ nops' = nops + 1
  /\ UNCHANGED <<heap, states, held, ret, threw, res, heap0, log, fins, applied, reverted,
                 config>>

NextProducer == Next \/ CraftWithPatches \/ CraftReturning

SpecProducer == Init /\ [][NextProducer]_vars

\* ------------------------------------------------- applying given patches
\* applyPatches on patch lists written by the caller.
GivenPaths ==
  {<<>>, <<Idx(0)>>, <<Idx(2)>>, <<Key("a")>>, <<Key("b")>>,
   <<Key("a"), Idx(0)>>, <<Key("a"), Key("a")>>, <<Idx(0), Key("a")>>}

GivenPatches ==
  {Patch(op, path, Num(7)) : op \in {"add", "replace"}, path \in GivenPaths}
    \cup {Patch("remove", path, Undef) : path \in GivenPaths}
    \cup {Patch("replace", <<>>, Ref(5))}

RECURSIVE PatchLists(_)
PatchLists(n) ==
  IF n = 0 THEN {<<>>}
  ELSE PatchLists(n - 1) \cup {Append(ps, p) : ps \in {q \in PatchLists(n - 1) : Len(q) = n - 1},
                                               p \in GivenPatches}

\* the segments of path name an index where they meet an array and a key
\* where they meet a record or a map
RECURSIVE WellKeyed(_, _, _)
WellKeyed(h, v, path) ==
  IF path = <<>> THEN TRUE
  ELSE IF v.t # "ref" THEN TRUE
  ELSE LET o == h[v.v]
       IN IF (o.kind \in {"arr", "set"}) # (path[1].i >= 0) THEN FALSE
          ELSE IF o.kind = "set" THEN TRUE
          ELSE WellKeyed(h, ObjGet(o, PropOf(o, path[1])), Tail(path))

RECURSIVE WellKeyedList(_, _, _)
WellKeyedList(W, v, ps) ==
  IF ps = <<>> THEN TRUE
  ELSE IF ~WellKeyed(W.heap, v, Head(ps).path) THEN FALSE
  ELSE LET W1 == applyPatch(W, v, Head(ps))
       IN IF W1.err THEN TRUE ELSE WellKeyedList(W1, W1.ret, Tail(ps))

InitApply ==
  /\ heap = PatchHeap
  /\ heap0 = heap
  /\ states = <<>>
  /\ held = {}
  /\ ret = Undef
  /\ threw = FALSE
  /\ res = <<>>
  /\ nops = 0
  /\ log = <<>>
  /\ last = "given"
  /\ fins = 0
  /\ call = NoCall
  /\ config = defaultConfig
  /\ pbase \in PatchValues /\ pnext = Undef
  /\ patches \in PatchLists(MaxPatches) /\ inversePatches = <<>>
  /\ WellKeyedList(World(heap, states), pbase, patches)
  /\ applied = Pending /\ reverted = Pending

NextApply == ApplyForward

SpecApply == InitApply /\ [][NextApply]_vars

\* ================================================================ claims
\* ---- helpers of the statements
SameContent(o1, o2) == o1.kind = o2.kind /\ o1.rec = o2.rec /\ o1.arr = o2.arr

OnlyFinish(q) == \A i \in 1..Len(q) : q[i].op = "finish"
Finished == last = "finish" /\ ~threw
Result == res[Len(res)]

\* C1: every node of the base tree keeps the keys, slots, members and values it
\* had when the view was created, whatever the caller does through the root
\* view and the values read from it.
C1_BaseUnchanged == \A o \in BaseIds : SameContent(heap[o], heap0[o])

\* ---- C2
\* the log entry e is a write of a number to a key or slot that holds a
\* different number in base (a leaf)
LeafWrite(e) ==
  /\ e.op = "set"
  /\ e.v.t = "num"
  /\ states[e.s].kind = "obj"
  /\ ObjGet(heap0[states[e.s].base], e.p).t = "num"
  /\ ObjGet(heap0[states[e.s].base], e.p) # e.v

\* the props of a base object that hold a nested object
ChildProps(o) ==
  IF o.kind = "arr" THEN {i \in 0..(Len(o.arr) - 1) : o.arr[i + 1].t = "ref"}
  ELSE {k \in Keys : o.rec[k].t = "ref"}

\* r, the value found in the result where base has node b, shares structure
\* as required for a write to node n: fresh on the path to n, base elsewhere
RECURSIVE Shares(_, _, _)
Shares(r, b, n) ==
  IF n \in Reach(heap0, b)
  THEN /\ r.t = "ref"
       /\ r.v \notin BaseIds /\ r.v # Spare
       /\ heap[r.v].kind = heap0[b].kind
       /\ \A p \in ChildProps(heap0[b]) :
            Shares(ObjGet(heap[r.v], p), ObjGet(heap0[b], p).v, n)
  ELSE r = Ref(b)

OneLeafWrite == Len(log) = 2 /\ LeafWrite(log[1]) /\ log[2].op = "finish"

\* C2: structural sharing.  When the only mutation of the session is a write
\* to a leaf (reads are free), every node of the finalized result off the path
\* from the root to the written node is the base node itself, and every node
\* on that path is a fresh object.
C2_StructuralSharing ==
  (Finished /\ OneLeafWrite) => Shares(Result, 1, states[log[1].s].base)

\* a leaf of a nested node was written through the child view read from the root
C2_Witness ==
  /\ Finished /\ OneLeafWrite
  /\ states[log[1].s].parent # 0
  /\ Len(states) >= 2
  /\ Shares(Result, 1, states[log[1].s].base)

\* ---- C3
\* C3: no-op identity.  When the session performs reads only (scalar reads,
\* reads of nested children, map reads), finishDraft returns base itself.
C3_NoOpIdentity == (Finished /\ OnlyFinish(log)) => Result = Ref(1)

\* a nested child was read (the read allocated the root's copy), then finish
C3_Witness ==
  /\ Finished /\ OnlyFinish(log)
  /\ Len(states) >= 2
  /\ states[1].copy # 0
  /\ Result = Ref(1)

\* ---- C4
\* C4: idempotence.  Two finishDraft calls in a row on the same view return
\* the identical reference.
C4_FinalizeIdempotent == (fins >= 2 /\ ~threw) => res[Len(res)] = res[Len(res) - 1]

\* ---- C5, C6
\* deep equality of two values: same kind and, slot by slot, deep-equal
\* content; set members are matched regardless of order
RECURSIVE DeepEq(_, _, _)
DeepEq(h, x, y) ==
  IF x.t # "ref" \/ y.t # "ref" THEN x = y
  ELSE LET a == h[x.v]
           b == h[y.v]
       IN /\ a.kind = b.kind
          /\ Len(a.arr) = Len(b.arr)
          /\ IF a.kind = "set"
             THEN /\ \A i \in 1..Len(a.arr) : \E j \in 1..Len(b.arr) : DeepEq(h, a.arr[i], b.arr[j])
                  /\ \A j \in 1..Len(b.arr) : \E i \in 1..Len(a.arr) : DeepEq(h, a.arr[i], b.arr[j])
             ELSE /\ \A i \in 1..Len(a.arr) : DeepEq(h, a.arr[i], b.arr[i])
                  /\ \A k \in Keys : DeepEq(h, a.rec[k], b.rec[k])

\* C5: forward round trip.  Replaying the patches of (base, next) on base,
\* in list order, gives a value that deep-equals next.
C5_ForwardRoundTrip ==
  applied # Pending => (applied # Threw /\ DeepEq(heap, applied, pnext))

\* C6: inverse round trip.  Replaying the inverse patches of (base, next) on
\* next, in list order, gives a value that deep-equals base.
C6_InverseRoundTrip ==
  reverted # Pending => (reverted # Threw /\ DeepEq(heap, reverted, pbase))

\* a sequence that grew by two elements is shrunk back by its two inverse
\* patches, into a fresh object equal to base
C6_Witness ==
  /\ pbase = Ref(2) /\ pnext = Ref(1)
  /\ Len(inversePatches) = 2
  /\ reverted.t = "ref" /\ reverted # pbase
  /\ DeepEq(heap, reverted, pbase)

\* ---- C7
\* the value found in the result (r, standing where base has b) at the place
\* of base node n, following the base path from b to n
RECURSIVE NodeAt(_, _, _)
NodeAt(r, b, n) ==
  IF b = n \/ r.t # "ref" THEN r
  ELSE LET p == CHOOSE q \in ChildProps(heap0[b]) : n \in Reach(heap0, ObjGet(heap0[b], q).v)
       IN NodeAt(ObjGet(heap[r.v], p), ObjGet(heap0[b], p).v, n)

\* the log entry e assigns the deletion marker to an existing slot or key of
\* the view of base node b
MarkerWrite(e, b) ==
  /\ e.op = "set" /\ e.v = nothing
  /\ states[e.s].kind = "obj" /\ states[e.s].base = b
  /\ ObjHas(heap0[b], e.p)

\* all mutations of the session are marker assignments to node b, then finish
MarkerSession(b) ==
  /\ Len(log) >= 2
  /\ log[Len(log)].op = "finish"
  /\ \A i \in 1..(Len(log) - 1) : MarkerWrite(log[i], b)

Marked == {log[i].p : i \in 1..(Len(log) - 1)}

RECURSIVE Without(_, _, _)
\* the sequence q without the slots whose index (from 0) is in S
Without(q, S, i) ==
  IF i > Len(q) THEN <<>>
  ELSE IF (i - 1) \in S THEN Without(q, S, i + 1)
  ELSE <<q[i]>> \o Without(q, S, i + 1)

IsContainer(o) == o.kind = "map" \/ o.kind = "set"

\* C8: container isolation.  Whatever set/delete/clear or add/delete/clear
\* calls are made through a map or set view, the base container keeps its
\* size and its membership.
C8_ContainerIsolation ==
  \A o \in BaseIds : IsContainer(heap0[o]) => SameContent(heap[o], heap0[o])

\* a map view was mutated: its copy differs from the base map
C8_Witness ==
  \E s \in 1..Len(states) :
    /\ states[s].kind = "map"
    /\ states[s].modified
    /\ ~SameContent(heap[states[s].copy], heap0[states[s].base])
    /\ log[Len(log)].op \in {"mapSet", "mapDelete", "mapClear"}

\* ---- C9
\* the base records stored as a value of a base map
MapValues == UNION {Kids(heap0, o) : o \in {x \in BaseIds : heap0[x].kind = "map"}}

\* C9: a record read out of a tracked map can be mutated like a draft: the
\* value object held by the base map is left unchanged.
C9_MapValueIsDraft == \A o \in MapValues : SameContent(heap[o], heap0[o])

\* ---- C10
\* C10: the finalized result contains no tracked view anywhere in its tree.
C10_NoViewInResult ==
  Finished =>
    /\ Result.t # "draft"
    /\ Result.t = "ref" =>
         \A o \in Reach(heap, Result.v) : \A v \in Slots(heap[o]) : v.t # "draft"

\* ---- C11
\* what a read through the map / set view of the last call has to answer:
\* the content of the copy if there is one, else of base
Visible == heap[latest(Cur, call.s)]

\* C11: the read methods and size of a map / set view report the latest
\* state: has, get and size answer from the private copy once a mutating
\* call was made, and from base before.
C11_ReadsLatest ==
  ~threw =>
    /\ call.op = "mapGet" => ret = ObjGet(Visible, call.p)
    /\ call.op = "mapHas" => ret = Bool(ObjHas(Visible, call.p))
    /\ call.op = "setHas" => ret = Bool(SeqHas(Visible.arr, call.v))
    /\ call.op = "size" => ret = Num(SizeOf(Visible))

\* ---- C12
RootAddRemove(p) == p.path = <<>> /\ p.op # "replace"
BaseIntact == \A o \in 1..Len(PatchHeap) : heap[o] = PatchHeap[o]

\* C12: a list holding an add or a remove with an empty path is rejected:
\* applyPatches raises, and base is as it was.  A replace with an empty
\* path on its own returns the patch value.
C12_RootAddRemoveRejected ==
  applied # Pending =>
    /\ (\E i \in 1..Len(patches) : RootAddRemove(patches[i])) => (applied = Threw /\ BaseIntact)
    /\ (Len(patches) = 1 /\ patches[1].path = <<>> /\ patches[1].op = "replace")
         => applied = patches[1].value

\* a list whose first patch changed a copy of base and whose second patch
\* is an add at the root was rejected
C12_Witness ==
  /\ applied = Threw /\ BaseIntact
  /\ Len(patches) = 2
  /\ patches[1].path = <<Key("a")>> /\ patches[1].op = "replace" /\ pbase = Ref(5)
  /\ patches[2].op = "add" /\ patches[2].path = <<>>
  /\ Len(heap) > Len(PatchHeap)

\* ---- C13
\* the one patch of the list addresses a slot outside the target sequence
OutOfRange(p) ==
  /\ Len(p.path) = 1 /\ pbase.t = "ref" /\ PatchHeap[pbase.v].kind = "arr"
  /\ IF p.op = "add" THEN p.path[1].i > Len(PatchHeap[pbase.v].arr)
     ELSE p.path[1].i >= Len(PatchHeap[pbase.v].arr)

\* C13: a patch whose last segment is an index outside the sequence makes
\* applyPatches raise.
C13_OutOfRangeRaises ==
  (applied # Pending /\ Len(patches) = 1 /\ OutOfRange(patches[1])) => applied = Threw

\* ---- C19
IsFresh(v) == v.t = "ref" /\ v.v > Len(PatchHeap)

\* r is what applying one patch at path made of base node b: a fresh clone
\* at every container the path walks through, and in each of them but the
\* last every slot off the path still holds base's own value (a primitive
\* met on the way is no container and stays as it is)
RECURSIVE FreshAlong(_, _, _)
FreshAlong(r, b, path) ==
  /\ IsFresh(r)
  /\ heap[r.v].kind = PatchHeap[b].kind
  /\ Len(path) > 1 =>
       LET o == PatchHeap[b]
           c == heap[r.v]
           p == PropOf(o, path[1])
       IN /\ Len(c.arr) = Len(o.arr)
          /\ \A j \in 1..Len(o.arr) : (o.kind = "arr" /\ j - 1 = p) \/ c.arr[j] = o.arr[j]
          /\ \A k \in Keys : (o.kind # "arr" /\ k = p) \/ c.rec[k] = o.rec[k]
          /\ IF ObjGet(o, p).t = "ref"
             THEN FreshAlong(ObjGet(c, p), ObjGet(o, p).v, Tail(path))
             ELSE ObjGet(c, p) = ObjGet(o, p)

\* C19: applyPatches does not mutate base.  Every object of base is as it
\* was; after one patch, each container on the patched path is a fresh
\* clone in the result and what lies off the path is base's own node.
C19_ApplyLeavesBase ==
  applied # Pending =>
    /\ BaseIntact
    /\ (applied # Threw /\ Len(patches) = 1 /\ patches[1].path # <<>> /\ pbase.t = "ref")
         => FreshAlong(applied, pbase.v, patches[1].path)

\* a patch two levels down was applied: root and child are fresh clones
C19_Witness ==
  /\ applied.t = "ref" /\ Len(patches) = 1
  /\ pbase = Ref(8) /\ patches[1].path = <<Key("a"), Idx(0)>> /\ patches[1].op = "replace"
  /\ FreshAlong(applied, pbase.v, patches[1].path)
  /\ ObjGet(heap[applied.v], "b") = Ref(5)
  /\ BaseIntact

\* ---- C15
\* the patches of a list that lie at or below key k of the root
Under(ps, k) == SelectSeq(ps, LAMBDA q : q.path # <<>> /\ q.path[1] = Key(k))

Keyed(v) == v.t = "ref" /\ PatchHeap[v.v].kind \in {"rec", "map"}

\* what the diff owes for key k of records or maps b and n
KeyDiff(b, n, k) ==
  LET here == <<Key(k)>>
      fwd == Under(patches, k)
      inv == Under(inversePatches, k)
  IN IF ObjHas(b, k) /\ ~ObjHas(n, k)
     THEN /\ fwd = <<Patch("remove", here, Undef)>>
          /\ inv = <<Patch("add", here, ObjGet(b, k))>>
     ELSE IF ~ObjHas(b, k) /\ ObjHas(n, k)
     THEN /\ fwd = <<Patch("add", here, ObjGet(n, k))>>
          /\ inv = <<Patch("remove", here, Undef)>>
     ELSE IF ~ObjHas(b, k) \/ ObjGet(b, k) = ObjGet(n, k)
     THEN fwd = <<>> /\ inv = <<>>
     ELSE LET D == generatePatches(PatchHeap, ObjGet(b, k), ObjGet(n, k), NoPatches, here)
          IN /\ fwd = D.patches /\ inv = D.inverse
             /\ fwd # <<>>
             /\ (ObjGet(b, k).t = "num" /\ ObjGet(n, k).t = "num") =>
                   /\ fwd = <<Patch("replace", here, ObjGet(n, k))>>
                   /\ inv = <<Patch("replace", here, ObjGet(b, k))>>

\* C15: keyed diff of two records or two maps.  A key only in base gives one
\* remove (inverse: add of base's value), a key only in next one add of
\* next's value (inverse: remove), a key in both with identical values gives
\* nothing, a key in both with different values gives the diff of the two
\* values below that key - one replace each way when both are scalars - and
\* there is no other patch.
C15_KeyedDiff ==
  (last # "init" /\ Keyed(pbase) /\ Keyed(pnext) /\ pbase # pnext
     /\ PatchHeap[pbase.v].kind = PatchHeap[pnext.v].kind) =>
    /\ \A k \in Keys : KeyDiff(PatchHeap[pbase.v], PatchHeap[pnext.v], k)
    /\ \A i \in 1..Len(patches) : \E k \in Keys : patches[i].path[1] = Key(k)
    /\ \A i \in 1..Len(inversePatches) : \E k \in Keys : inversePatches[i].path[1] = Key(k)

\* {a: 1} -> {b: 1}: key a is removed and key b is added
C15_Witness ==
  /\ last # "init"
  /\ pbase = Ref(5) /\ pnext = Ref(7)
  /\ patches = <<Patch("remove", <<Key("a")>>, Undef), Patch("add", <<Key("b")>>, Num(1))>>
  /\ inversePatches = <<Patch("remove", <<Key("b")>>, Undef), Patch("add", <<Key("a")>>, Num(1))>>

\* ---- C16
Sequence(v) == v.t = "ref" /\ PatchHeap[v.v].kind = "arr"

Min(x, y) == IF x < y THEN x ELSE y

\* the diffs of positions i .. m-1 of b and n, one after the other
RECURSIVE PrefixDiff(_, _, _, _)
PrefixDiff(b, n, i, m) ==
  IF i >= m THEN <<>>
  ELSE generatePatches(PatchHeap, ObjGet(b, i), ObjGet(n, i), NoPatches, <<Idx(i)>>).patches
         \o PrefixDiff(b, n, i + 1, m)

\* first the run of tail operations, then the element-wise diffs
TailThenPrefix(b, n) ==
  LET lb == Len(b.arr)
      ln == Len(n.arr)
      m == Min(lb, ln)
      d == IF lb > ln THEN lb - ln ELSE ln - lb
  IN /\ Len(patches) >= d
     /\ \A j \in 1..d :
          patches[j] = IF lb > ln THEN Patch("remove", <<Idx(m + j - 1)>>, Undef)
                       ELSE Patch("add", <<Idx(m + j - 1)>>, ObjGet(n, m + j - 1))
     /\ SubSeq(patches, d + 1, Len(patches)) = PrefixDiff(b, n, 0, m)

\* n is b with one element appended
Appended(b, n) ==
  /\ Len(n.arr) = Len(b.arr) + 1
  /\ \A i \in 1..Len(b.arr) : n.arr[i] = b.arr[i]

\* n is b, a sequence of distinct scalars, with one element put in front
FrontInserted(b, n) ==
  /\ Len(n.arr) = Len(b.arr) + 1
  /\ \A i \in 1..Len(b.arr) : n.arr[i + 1] = b.arr[i] /\ b.arr[i].t = "num"
  /\ \A i, j \in 1..Len(b.arr) : i # j => b.arr[i] # b.arr[j]

\* the element put in front is not the one that was first before
NewFront(b, n) == Len(b.arr) = 0 \/ n.arr[1] # b.arr[1]

SequenceDiff(strict) ==
  (last # "init" /\ Sequence(pbase) /\ Sequence(pnext) /\ pbase # pnext) =>
    LET b == PatchHeap[pbase.v]
        n == PatchHeap[pnext.v]
    IN /\ TailThenPrefix(b, n)
       /\ Appended(b, n) => patches = <<Patch("add", <<Idx(Len(b.arr))>>, ObjGet(n, Len(b.arr)))>>
       /\ (FrontInserted(b, n) /\ (strict => NewFront(b, n))) => Len(patches) = Len(b.arr) + 1

\* C16: sequence diff.  The forward list starts with one remove (shrink) or
\* one add (growth) per index from the shorter length up to the longer one,
\* in ascending order, followed by the diffs of positions 0 .. shorter
\* length - 1 in order; an append to a sequence of length n gives exactly
\* [add at n]; putting an element in front of n distinct scalars gives n + 1
\* patches, provided the element differs from the former first one.
C16_SequenceDiff == SequenceDiff(TRUE)

\* C16 as stated: n + 1 patches whatever element is put in front.
C16_FrontInsertAlwaysNPlusOne == SequenceDiff(FALSE)

\* [1, 2] -> [3, 1, 2]: the add at index 2 comes first, then two replaces
C16_Witness ==
  /\ last # "init"
  /\ pbase = Ref(22) /\ pnext = Ref(27)
  /\ FrontInserted(PatchHeap[22], PatchHeap[27]) /\ NewFront(PatchHeap[22], PatchHeap[27])
  /\ patches = <<Patch("add", <<Idx(2)>>, Num(2)), Patch("replace", <<Idx(0)>>, Num(3)),
                 Patch("replace", <<Idx(1)>>, Num(1))>>

\* ---- C17
\* the kinds of the specification: scalar, null, record, sequence, map, set
KindOf(v) ==
  IF v.t = "ref" THEN PatchHeap[v.v].kind ELSE IF v.t = "null" THEN "null" ELSE "scalar"

\* the patches of a list that lie at or below segment seg of the root
UnderSeg(ps, seg) == SelectSeq(ps, LAMBDA q : q.path # <<>> /\ q.path[1] = seg)

\* the segments of container o and the member each one names
Segments(o) ==
  IF o.kind = "arr" THEN {Idx(i) : i \in 0..(Len(o.arr) - 1)}
  ELSE IF o.kind = "set" THEN {}
  ELSE {Key(k) : k \in {x \in Keys : ObjHas(o, x)}}

\* C17: kind change.  Where base and next differ in kind - at the root, or
\* at a member of two containers of one kind - the forward list holds exactly
\* one patch at or below that path, a replace with next's whole value, and
\* the inverse list exactly one, a replace with base's whole value.
C17_KindChange ==
  last # "init" =>
    /\ KindOf(pbase) # KindOf(pnext) =>
         /\ patches = <<Patch("replace", <<>>, pnext)>>
         /\ inversePatches = <<Patch("replace", <<>>, pbase)>>
    /\ (pbase.t = "ref" /\ pnext.t = "ref" /\ pbase # pnext /\ KindOf(pbase) = KindOf(pnext)) =>
         LET b == PatchHeap[pbase.v]
             n == PatchHeap[pnext.v]
         IN \A seg \in Segments(b) \cap Segments(n) :
              LET x == ObjGet(b, PropOf(b, seg))
                  y == ObjGet(n, PropOf(n, seg))
              IN KindOf(x) # KindOf(y) =>
                   /\ UnderSeg(patches, seg) = <<Patch("replace", <<seg>>, y)>>
                   /\ UnderSeg(inversePatches, seg) = <<Patch("replace", <<seg>>, x)>>

\* [1, 2, 3] -> [{a: 1}, [1, 2, 3], 1]: a record and a sequence take the
\* place of two scalars, each by one replace
C17_Witness ==
  /\ last # "init"
  /\ pbase = Ref(1) /\ pnext = Ref(10)
  /\ patches = <<Patch("replace", <<Idx(0)>>, Ref(5)), Patch("replace", <<Idx(1)>>, Ref(1)),
                 Patch("replace", <<Idx(2)>>, Num(1))>>
  /\ UnderSeg(inversePatches, Idx(1)) = <<Patch("replace", <<Idx(1)>>, Num(2))>>

\* ---- C18
\* C18: no change, no patch.  When the producer only reads, craftWithPatches
\* returns base itself with two empty patch lists; and whatever the producer
\* did, a member of the root that is the same value in base and in the
\* result (all of them when the result is base) has no patch at or below it.
C18_NoChangeNoPatches ==
  last = "generate" =>
    /\ OnlyFinish(log) => (pnext = pbase /\ patches = <<>> /\ inversePatches = <<>>)
    /\ pnext = pbase => (patches = <<>> /\ inversePatches = <<>>)
    /\ (pnext.t = "ref" /\ heap[pnext.v].kind = heap[pbase.v].kind) =>
         \A seg \in Segments(heap[pbase.v]) \cap Segments(heap[pnext.v]) :
           ObjGet(heap[pbase.v], PropOf(heap[pbase.v], seg))
             = ObjGet(heap[pnext.v], PropOf(heap[pnext.v], seg))
           => (UnderSeg(patches, seg) = <<>> /\ UnderSeg(inversePatches, seg) = <<>>)

\* the producer read a nested child and a scalar, and changed nothing
C18_Witness ==
  /\ last = "generate" /\ OnlyFinish(log)
  /\ nops = 3 /\ Len(states) >= 2
  /\ pnext = Ref(1) /\ patches = <<>> /\ inversePatches = <<>>

\* ---- C20
\* the record and sequence nodes of the result that the engine allocated
FreshNodes ==
  {o \in Reach(heap, Result.v) : o > Spare /\ heap[o].kind \in {"rec", "arr"}}

\* C20: after the first finishDraft of a session that modified a node, the
\* root result and every record or sequence node of the result that the
\* engine copied is frozen.
C20_FreshNodesFrozen ==
  (Finished /\ fins = 1 /\ states[1].modified /\ Result.t = "ref") =>
    (heap[Result.v].frozen /\ \A o \in FreshNodes : heap[o].frozen)

\* ---- C21
\* C21: the freeze knob governs finishDraft.  With the knob disabled the
\* result of finishDraft is not frozen and no node of base gets frozen; with
\* it enabled the result is frozen.
C21_FreezeKnob ==
  (Finished /\ fins = 1 /\ Result.t = "ref") =>
    IF config.autoFreeze THEN heap[Result.v].frozen
    ELSE ~heap[Result.v].frozen /\ \A o \in BaseIds : ~heap[o].frozen

\* ---- C22
\* node t is node s or one of its descendants
RECURSIVE IsBelow(_, _)
IsBelow(t, s) == t = s \/ (t # 0 /\ states[t].parent # 0 /\ IsBelow(states[t].parent, s))

\* a mutating operation was invoked on node s or on a descendant of it
MutatedBelow(s) ==
  \E i \in 1..Len(log) : log[i].op \notin {"finish", "rawWrite"} /\ IsBelow(log[i].s, s)

\* a view of a nested child of node s was created by a read
ChildViewRead(s) == \E t \in 1..Len(states) : states[t].parent = s

ModifiedUpward ==
  \A s \in 1..Len(states) : states[s].modified =>
    \A t \in 1..Len(states) : IsBelow(s, t) => (states[t].modified /\ states[t].copy # 0)

\* no step clears a modified flag, drops a copy or forgets a node
NoRevert ==
  /\ Len(states') >= Len(states)
  /\ \A s \in 1..Len(states) :
       /\ states[s].modified => states'[s].modified
       /\ states[s].copy # 0 => states'[s].copy # 0

\* C23: for every record, sequence, map and set node, modified implies an
\* allocated copy and modified ancestors with allocated copies up to the
\* root; modified never goes back to false and a copy never goes away.
C23_ModifiedMonotone == []ModifiedUpward /\ [][NoRevert]_vars

\* a nested map under the root was mutated: both nodes are modified and
\* have their copies
C23_Witness ==
  /\ call.op = "mapSet" /\ ~threw
  /\ states[call.s].parent = 1
  /\ states[call.s].modified /\ states[call.s].copy # 0
  /\ states[1].modified /\ states[1].copy # 0

\* ---- C24
\* the plain value a value stands for: a view stands for the copy of its
\* node if present, else for its base
Materialized(x) == IF x.t = "draft" THEN Ref(latest(Cur, x.v)) ELSE x

\* the operation e writes to a key the value that is visible there already
WritesVisibleValue(e) ==
  /\ e.op = "set" /\ e.v # nothing
  /\ ObjHas(heap[latest(Cur, e.s)], e.p)
  /\ Materialized(e.v) = Materialized(ObjGet(heap[latest(Cur, e.s)], e.p))

\* C24: write no-op check.  A write whose incoming value, a view unwrapped,
\* is identical to the value visible at the key - a scalar, a nested value,
\* the value just read from that key - leaves modified, copy and the
\* child-view cache of every node as they were.
C24_WriteNoOp == [][WritesVisibleValue(call') => states' = states]_vars

\* ---- C25
\* the effect the delete e must have had when its key was visible
DeletedFromCopy(e) ==
  LET st == states'[e.s]
  IN /\ st.modified /\ st.copy # 0
     /\ ~ObjHas(heap'[st.copy], e.p)
     /\ CachedChild(st, e.p) = 0
     /\ \A t \in 1..Len(states) : IsBelow(e.s, t) => states'[t].modified

\* C25: deleting a visible key marks the node and its ancestors modified,
\* removes the key from the copy and drops the cached child view of the
\* key; deleting a key that is not visible changes no node.
C25_DeleteLikeWrite ==
  [][(call'.op = "delete" /\ ~threw') =>
       IF ObjHas(heap[latest(Cur, call'.s)], call'.p)
       THEN DeletedFromCopy(call')
       ELSE states' = states]_vars

\* ---- C26
\* the writes and deletes of key p through view s, in order
Touches(s, p) == {i \in 1..Len(log) : log[i].s = s /\ log[i].p = p}
LastTouch(s, p) == IF Touches(s, p) = {} THEN 0
                   ELSE CHOOSE i \in Touches(s, p) : \A j \in Touches(s, p) : j <= i

\* view s was only written and deleted through, keys being given ordinary
\* values, and the session is not finished
WrittenAndDeleted(s) ==
  /\ \A i \in 1..Len(log) : log[i].op # "finish"
  /\ \A i \in 1..Len(log) : log[i].s = s =>
        (log[i].op \in {"set", "delete"} /\ log[i].v # nothing)

\* what key p of view s must read as: the last value written, absent after
\* a delete, base's value when untouched
Expected(s, p) ==
  LET i == LastTouch(s, p)
  IN IF i = 0 THEN ObjGet(heap[states[s].base], p)
     ELSE IF log[i].op = "delete" THEN Undef
     ELSE log[i].v

ExpectedPresent(s, p) ==
  LET i == LastTouch(s, p)
  IN IF i = 0 THEN ObjHas(heap[states[s].base], p) ELSE log[i].op = "set"

\* r is the value x: x itself, the plain value a written view x stood for
\* (its node's base or copy), or a view of one of those
SameValue(r, x) ==
  LET objs == IF x.t = "ref" THEN {x.v}
              ELSE IF x.t = "draft" THEN {states[x.v].base, states[x.v].copy} \ {0}
              ELSE {}
  IN \/ r = x
     \/ r.t = "ref" /\ r.v \in objs
     \/ r.t = "draft" /\ states'[r.v].base \in objs

ExpectedKeys(s) ==
  IF IsArrayState(s)
  THEN {p \in 0..(Len(heap[states[s].base].arr) + MaxMut) : ExpectedPresent(s, p)} \cup {LEN}
  ELSE {p \in Keys : ExpectedPresent(s, p)}

\* C26: through a record or array view that was only written and deleted
\* through, a read of a key gives the last value written to it (absent
\* after a delete, base's value if untouched), and `in` and ownKeys report
\* exactly the keys that are then present.
C26_ReadYourWrites ==
  [][(call'.op \in {"get", "has", "ownKeys"} /\ WrittenAndDeleted(call'.s) /\ ~threw') =>
       CASE call'.op = "get" -> SameValue(ret', Expected(call'.s, call'.p))
         [] call'.op = "has" -> ret' = Bool(ExpectedPresent(call'.s, call'.p))
         [] call'.op = "ownKeys" -> ret'.v = KeyList(ExpectedKeys(call'.s), IsArrayState(call'.s))]_vars

\* ---- C27
\* the session is not finished and view s was only written and deleted
\* through (its array operations, which move every slot, are left out)
KeyedUse(s) ==
  /\ \A i \in 1..Len(log') : log'[i].op # "finish"
  /\ \A i \in 1..Len(log') : log'[i].s = s => log'[i].op \in {"set", "delete"}

ValueAt(h, st, s, p) == ObjGet(h[IF st[s].copy # 0 THEN st[s].copy ELSE st[s].base], p)

\* a read of a key with a cached child view returns that very view, and a
\* read returns no other view than it or a newly made one
ReadUsesCache ==
  LET c == CachedChild(states[call'.s], call'.p)
  IN IF c # 0 THEN ret' = Draft(c)
     ELSE ret'.t = "draft" => ret'.v > Len(states)

\* a write that changes the value at the key, or a delete, empties the
\* key's cache entry
WriteDropsCache ==
  (call'.op = "delete" \/ ValueAt(heap', states', call'.s, call'.p)
                           # ValueAt(heap, states, call'.s, call'.p))
    => CachedChild(states'[call'.s], call'.p) = 0

\* nothing but a write or delete of the key changes its cache entry, once
\* there is one
CacheKept ==
  \A p \in Props(call'.s) :
    (CachedChild(states[call'.s], p) # 0 /\ ~(call'.op \in {"set", "delete"} /\ call'.p = p))
      => CachedChild(states'[call'.s], p) = CachedChild(states[call'.s], p)

\* C27: two reads of a key with no write or delete of the key in between
\* return the identical child view, and after the key is overwritten with
\* a different value or deleted no read of it returns the view cached
\* before.
C27_ChildCache ==
  [][(call'.op \in {"get", "set", "delete"} /\ KeyedUse(call'.s) /\ ~threw') =>
       /\ call'.op = "get" => ReadUsesCache
       /\ call'.op \in {"set", "delete"} => WriteDropsCache
       /\ CacheKept]_vars

\* a child view was read from the root, its key was then overwritten or
\* deleted, and the key was read again: the old view is in no cache entry
C27_Witness ==
  /\ nops = 3 /\ call.op = "get" /\ call.s = 1 /\ ~threw
  /\ Len(log) = 1 /\ log[1].op \in {"set", "delete"} /\ log[1].s = 1 /\ log[1].p = call.p
  /\ Len(states) = 2 /\ states[2].parent = 1
  /\ states[1].drafts = {}
  /\ ret # Draft(2)

\* ---- C28
\* the read call' finds at its key an object other than base's value there
ReadsReplacement ==
  LET value == ValueAt(heap, states, call'.s, call'.p)
  IN value.t = "ref" /\ value # ObjGet(heap[states[call'.s].base], call'.p)

\* the last write of the key read by call' put a plain object there
WrotePlain ==
  /\ WrittenAndDeleted(call'.s)
  /\ LastTouch(call'.s, call'.p) # 0
  /\ log[LastTouch(call'.s, call'.p)].op = "set"
  /\ log[LastTouch(call'.s, call'.p)].v.t = "ref"

\* C28: a read of a key whose value was replaced by an earlier write
\* returns the replacement itself, not a view, and makes no draft state;
\* a child view is made only for a value that is base's value at the key.
C28_ReplacedAsIs ==
  [][(call'.op = "get" /\ ~threw') =>
       /\ ReadsReplacement =>
            (ret' = ValueAt(heap, states, call'.s, call'.p) /\ states' = states /\ heap' = heap)
       /\ WrotePlain => (ret' = log[LastTouch(call'.s, call'.p)].v /\ states' = states)
       /\ Len(states') > Len(states) =>
            (/\ ValueAt(heap, states, call'.s, call'.p).t = "ref"
             /\ ValueAt(heap, states, call'.s, call'.p) = ObjGet(heap[states[call'.s].base], call'.p))]_vars

\* the caller's own record was written to a key holding a base record, and
\* the key was read back
C28_Witness ==
  /\ call.op = "get" /\ call.s = 1 /\ ~threw
  /\ log = <<Entry("set", 1, call.p, Ref(Spare))>>
  /\ heap0[1].kind = "rec" /\ ObjGet(heap0[1], call.p).t = "ref"
  /\ ret = Ref(Spare)
  /\ Len(states) = 1

\* ---- C29
InPlaceOps == {"push", "pop", "shift", "unshift", "reverse"}

\* C29: an in-place array operation marks its node and the node's
\* ancestors modified when it is invoked and changes no base object;
\* obtaining the operation from the view without invoking it changes no
\* node.
C29_MarkOnInvoke ==
  [][/\ (call'.op \in InPlaceOps /\ ~threw') =>
          /\ \A t \in 1..Len(states) : IsBelow(call'.s, t) =>
                (states'[t].modified /\ states'[t].copy # 0)
          /\ \A o \in BaseIds : heap'[o] = heap[o]
     /\ call'.op = "getMethod" => states' = states]_vars

\* ---- C30
\* C30: assigning a view of any kind to a key or slot stores the view's
\* own materialized value, the copy of its node if there is one and else
\* the node's base, as they were when the assignment was made.
C30_StoresOwnValue ==
  [][(call'.op = "set" /\ call'.v.t = "draft" /\ ~threw') =>
       ValueAt(heap', states', call'.s, call'.p) = Ref(latest(Cur, call'.v.v))]_vars

\* ---- C31
ContainerOps == {"mapSet", "mapDelete", "mapClear", "setAdd", "setDelete", "setClear"}

\* a mutating method was called on the view with state t
MethodCalled(t) == \E i \in 1..Len(log) : log[i].op \in ContainerOps /\ log[i].s = t

\* only methods of map and set views were called before the one finishDraft
ContainerSession ==
  /\ Finished /\ fins = 1
  /\ \A i \in 1..(Len(log) - 1) : log[i].op \in ContainerOps

\* what finalizing the container o of the base tree must yield
Yielded(o) ==
  IF \E t \in 1..Len(states) : states[t].base = o /\ MethodCalled(t)
  THEN Ref(states[CHOOSE t \in 1..Len(states) : states[t].base = o /\ MethodCalled(t)].copy)
  ELSE Ref(o)

IsBaseContainer(v) == v.t = "ref" /\ heap0[v.v].kind \in {"map", "set"}

SlotsOf(o) == IF o.kind = "arr" THEN 0..(Len(o.arr) - 1) ELSE Keys

\* C31: finalizing a view over a map or set yields the container's copy if
\* a mutating method was called on it and its base otherwise, for a
\* container under a record, in an array, and at the root, where the
\* result is a plain container and not the view.
C31_ContainerFinalize ==
  ContainerSession =>
    IF heap0[1].kind \in {"map", "set"}
    THEN Result = Yielded(1) /\ (MethodCalled(1) => states[1].copy \notin {0, 1})
    ELSE /\ Result.t = "ref"
         /\ \A p \in SlotsOf(heap0[1]) :
              IsBaseContainer(ObjGet(heap0[1], p)) =>
                ObjGet(heap[Result.v], p) = Yielded(ObjGet(heap0[1], p).v)

\* ---- C32
NotMarker(x) == x # nothing
Survivors(a) == SelectSeq(a, NotMarker)

\* the root array as it stood when finishDraft was first called (the
\* filtering pass builds a new array and leaves the copy as it was)
Pending32 == heap[states[1].copy].arr

MarkersAndViews ==
  /\ Finished /\ Len(res) = 1
  /\ heap0[1].kind = "arr" /\ states[1].modified
  /\ \E i \in 1..Len(Pending32) : Pending32[i] = nothing
  /\ \E i \in 1..Len(Pending32) : Pending32[i].t = "draft"

\* r is the finalized value of the view with state t
FinalizedAs(r, t) ==
  LET st == states[t]
  IN IF st.kind # "obj" THEN r = Ref(latest(Cur, t))
     ELSE IF ~st.modified THEN r = Ref(st.base)
     ELSE IF heap[st.copy].kind = "arr" /\ hasNothing(heap[st.copy])
     THEN r.t = "ref" /\ heap[r.v].arr = Survivors(heap[st.copy].arr)
     ELSE r = Ref(st.copy)

RECURSIVE BaseAt(_, _)
BaseAt(v, path) ==
  IF path = <<>> THEN v
  ELSE IF v.t # "ref" THEN Undef
  ELSE LET o == heap[v.v]
           seg == Head(path)
           x == IF o.kind \in {"arr", "set"}
                THEN IF seg.i >= 0 /\ seg.i < Len(o.arr) THEN o.arr[seg.i + 1] ELSE Absent
                ELSE IF seg.k \in Keys THEN o.rec[seg.k] ELSE Absent
       IN BaseAt(IF x = Absent THEN Undef ELSE x, Tail(path))

\* inv undoes fwd
InverseOf(inv, fwd) ==
  /\ inv.path = fwd.path
  /\ CASE fwd.op = "add" -> inv.op = "remove"
       [] fwd.op = "remove" -> inv.op = "add" /\ inv.value = BaseAt(pbase, fwd.path)
       [] fwd.op = "replace" -> inv.op = "replace" /\ inv.value = BaseAt(pbase, fwd.path)

\* C33: the inverse list is as long as the patch list, and its patch at
\* position i undoes the forward patch at position n-1-i: same path, add
\* against remove, remove against add of base's value, replace against
\* replace by base's value.
C33_InverseMirrors ==
  last # "init" =>
    /\ Len(inversePatches) = Len(patches)
    /\ \A i \in 1..Len(patches) :
         InverseOf(inversePatches[i], patches[Len(patches) + 1 - i])

\* a diff of two patches of different kinds, mirrored
C33_Witness ==
  /\ last # "init"
  /\ Len(patches) = 2
  /\ patches[1].op = "remove" /\ patches[2].op = "replace"
  /\ inversePatches[1].op = "replace" /\ inversePatches[2].op = "add"
  /\ inversePatches[1].path # inversePatches[2].path

\* ---- C35
\* C35: when the producer returns nothing, next is the finalized tree; when
\* it returns a value, next is exactly that value; either way next is a
\* plain value and the two patch lists are the diff of base and next.
C35_ProducerContract ==
  last = "generate" =>
    /\ call.op = "craftWithPatches" => pnext = Result
    /\ call.op = "craftReturning" => pnext = call.v
    /\ NoViewIn(heap, pnext)
    /\ patches = generatePatches(heap, pbase, pnext, NoPatches, <<>>).patches
    /\ inversePatches = generatePatches(heap, pbase, pnext, NoPatches, <<>>).inverse

\* ---- C34
InsertAt(a, i, v) == SubSeq(a, 1, i) \o <<v>> \o SubSeq(a, i + 1, Len(a))
RemoveAt(a, i) == SubSeq(a, 1, i) \o SubSeq(a, i + 2, Len(a))

\* one patch with a one-segment path was applied to a container, the
\* segment naming a slot of the sequence (or its end, for an add)
TailPatch ==
  /\ applied # Pending /\ applied # Threw
  /\ Len(patches) = 1 /\ Len(patches[1].path) = 1
  /\ pbase.t = "ref"
  /\ PatchHeap[pbase.v].kind = "arr" =>
       patches[1].path[1].i < Len(PatchHeap[pbase.v].arr) + (IF patches[1].op = "add" THEN 1 ELSE 0)

\* what the patch p must make of container o
Installed(o, p) ==
  LET seg == p.path[1]
  IN CASE o.kind = "arr" ->
            IF p.op = "add" THEN [o EXCEPT !.arr = InsertAt(@, seg.i, p.value)]
            ELSE IF p.op = "remove" THEN [o EXCEPT !.arr = RemoveAt(@, seg.i)]
            ELSE [o EXCEPT !.arr[seg.i + 1] = p.value]
       [] o.kind = "set" ->
            IF p.op = "remove" THEN [o EXCEPT !.arr = SeqRemove(@, p.value)]
            ELSE [o EXCEPT !.arr = IF SeqHas(@, p.value) THEN @ ELSE Append(@, p.value)]
       [] OTHER ->
            IF p.op = "remove" THEN [o EXCEPT !.rec[seg.k] = Absent]
            ELSE [o EXCEPT !.rec[seg.k] = p.value]

\* C34: at the last path segment, add on a sequence inserts at the index
\* and remove deletes the slot, later elements shifting; on a map and on a
\* record add/replace set the key and remove deletes it; on a set add
\* inserts the patch value and remove deletes it.
C34_InstallPerKind ==
  TailPatch =>
    /\ applied.t = "ref"
    /\ heap[applied.v].kind = PatchHeap[pbase.v].kind
    /\ heap[applied.v].arr = Installed(PatchHeap[pbase.v], patches[1]).arr
    /\ heap[applied.v].rec = Installed(PatchHeap[pbase.v], patches[1]).rec

\* ---- C36
\* the results finishDraft has handed out so far
Handed == {res[i] : i \in 1..Len(res)}

\* the step is an operation through the root view or one of its nested views
ThroughView == call'.op \notin {"finish", "rawWrite", "init"}

\* C36: once finishDraft has returned a result, no later operation through
\* the root view or a nested view changes the result or a node reachable
\* from it.
C36_ResultOwned ==
  [][ThroughView =>
       \A r \in Handed : r.t = "ref" =>
         \A o \in Reach(heap, r.v) : heap'[o] = heap[o]]_vars

\* ---- C37
\* the last operation read a key of a record or array view and was handed
\* a record or array of the base tree, and the caller now writes to it
WritesWhatWasRead ==
  /\ call.op = "get" /\ ret.t = "ref" /\ ret.v \in BaseIds
  /\ call'.op = "rawWrite" /\ call'.s = ret.v

\* C37: a record or array of the base tree that shows at another key or
\* index than in base is not handed out raw: writing to what a read of it
\* returned leaves the base object as it was.
C37_MovedNotRaw ==
  [][WritesWhatWasRead => heap'[ret.v] = heap0[ret.v]]_vars

\* ---- C38
\* the last operation was current(view) and it returned a snapshot
Snapshot == call.op = "current" /\ ~threw

\* C38: the snapshot returned by current(view) is isolated from the draft:
\* the next operation made through a view (a record write, a map set, a
\* set add) changes neither the snapshot nor a value reachable from it.
C38_SnapshotIsolated ==
  [][(Snapshot /\ call'.op \in {"set", "mapSet", "setAdd"}) =>
       (ret.t = "ref" => \A o \in Reach(heap, ret.v) : heap'[o] = heap[o])]_vars

\* ---- C14
\* C14: finishDraft on a value that is no tracked view returns that very
\* value, does not throw, and leaves every object (the value included) as it
\* was, unfrozen if it was unfrozen.
C14_FinishPlainIsIdentity ==
  [][call'.op = "finishPlain" => (~threw' /\ ret' = call'.v /\ heap' = heap)]_vars

====
